---- MODULE Spec2Model ----
(***************************************************************************)
(* Model of the CRM backend (backend/server.py and the two alternate       *)
(* import implementations clean_import.py, backend/clean_import_function.py)*)
(*                                                                         *)
(* Strings that the code trims, slices or concatenates (spreadsheet cells, *)
(* phones) are sequences of one-character strings.  Timestamps are         *)
(* integers counting 30-minute units; ISO timestamps compare as strings in *)
(* the code, which for one format is the order of the integers.            *)
(***************************************************************************)
EXTENDS Integers, Sequences, FiniteSets, TLC

VARIABLES
    contacts,       \* db.contacts: sequence of contact documents, insertion order
    followups,      \* db.followups: sequence of follow-up documents
    activity_logs,  \* db.activity_logs: sequence of [action, target]
    nextId,         \* source of fresh identifiers (uuid4)
    now,            \* the clock, in 30-minute units
    dispatched,     \* ghost: follow-up id -> number of calls of send_email_notification
    resp,           \* the response of the last request
    file,           \* import input: the parsed sheet (sequence of rows)
    mapping,        \* import input: crm_field -> excel column
    runs,           \* history of import responses on (file, mapping)
    sweep,          \* the executions of check_followup_alerts in progress
    notes,          \* db.notes: sequence of note documents
    meetings,       \* db.meetings: sequence of meeting documents
    demos,          \* db.demos: sequence of demo documents
    inflight,       \* the requests in progress between two store operations
    undelivered     \* ghost: the follow-up ids whose notification failed to send

vars == <<contacts, followups, activity_logs, nextId, now, dispatched, resp,
          file, mapping, runs, sweep, notes, meetings, demos,
          inflight, undelivered>>

stepVars == <<inflight, undelivered>>

----------------------------------------------------------------------------
(* Bounds *)

MaxContacts == 3    \* documents in db.contacts
MaxFollowups == 1   \* documents in db.followups
MaxLog == 3         \* documents in db.activity_logs
MaxRows == 2        \* rows of an uploaded sheet
MaxRuns == 2        \* imports of the same sheet
MaxTime == 1        \* clock ticks
MaxNotes == 1       \* documents in db.notes
MaxMeetings == 1    \* documents in db.meetings
MaxDemos == 1       \* documents in db.demos

----------------------------------------------------------------------------
(* Strings as sequences of characters *)

None == <<"<None>">>        \* Python None
NA == <<"<NA>">>            \* pd.NA

sNone == <<"N", "o", "n", "e">>
sFollowUp == <<"F", "o", "l", "l", "o", "w", "-", "u", "p">>

\* str.lower(), on the characters the model uses
LowerChar(c) ==
    CASE c = "A" -> "a"
      [] c = "B" -> "b"
      [] c = "N" -> "n"
      [] c = "U" -> "u"
      [] c = "L" -> "l"
      [] c = "O" -> "o"
      [] c = "E" -> "e"
      [] OTHER -> c

Lower(s) == [i \in 1..Len(s) |-> LowerChar(s[i])]

RECURSIVE LStrip(_)
LStrip(s) == IF s # <<>> /\ Head(s) = " " THEN LStrip(Tail(s)) ELSE s

RECURSIVE RStrip(_)
RStrip(s) ==
    IF s # <<>> /\ s[Len(s)] = " " THEN RStrip(SubSeq(s, 1, Len(s) - 1)) ELSE s

\* str.strip()
Strip(s) == RStrip(LStrip(s))

\* str.replace(old, new) for a one-character old
ReplaceChar(s, old, new) == [i \in 1..Len(s) |-> IF s[i] = old THEN new ELSE s[i]]

\* s[:n]
Prefix(s, n) == SubSeq(s, 1, IF Len(s) < n THEN Len(s) ELSE n)

Digit == <<"0", "1", "2", "3", "4", "5", "6", "7", "8", "9">>

\* str(n) for a natural number
RECURSIVE Str(_)
Str(n) == IF n < 10 THEN <<Digit[n + 1]>> ELSE Str(n \div 10) \o <<Digit[(n % 10) + 1]>>

\* str_value.encode("utf-8", errors="ignore").decode("utf-8"): drops lone surrogates
Surrogate == "<surrogate>"
Utf8Clean(s) == SelectSeq(s, LAMBDA c : c # Surrogate)

----------------------------------------------------------------------------
(* The document store *)

\* the first index of a set of indices, 0 when there is none
First(hits) == IF hits = {} THEN 0 ELSE CHOOSE i \in hits : \A j \in hits : i <= j

\* find_one({"phone": phone}): the first document that matches, 0 for None
FindByPhone(store, phone) == First({i \in 1..Len(store) : store[i].phone = phone})

\* find_one({"id": id})
FindById(store, id) == First({i \in 1..Len(store) : store[i].id = id})

\* delete_one, were it to remove the document and all that follow it
DeleteFromAt(docs, i) == SubSeq(docs, 1, i - 1)

\* delete_one({"id": id})
DeleteAt(docs, i) == SubSeq(docs, 1, i - 1) \o SubSeq(docs, i + 1, Len(docs))

\* log_activity
LogActivity(logs, action, target) == Append(logs, [action |-> action, target |-> target])

EmptyData == [f \in {} |-> <<>>]

\* None in a field that holds a timestamp
NoTime == -1

\* class Contact
Contact(id, phone, customer_name, status, data, t) ==
    [id |-> id, phone |-> phone, customer_name |-> customer_name,
     status |-> status, data |-> data, updated_at |-> t, last_call_at |-> NoTime]

----------------------------------------------------------------------------
(* Spreadsheet import: helpers shared by the three implementations *)

\* the values df.replace turns into pd.NA (exact, case as listed)
ReplaceList ==
    { <<>>, <<" ">>,
      <<"N", "/", "A">>, <<"n", "/", "a">>, <<"N", "A">>, <<"n", "a">>,
      <<"N", "U", "L", "L">>, <<"n", "u", "l", "l">>,
      <<"N", "o", "n", "e">>, <<"n", "o", "n", "e">> }

\* df = df.replace([...], pd.NA), on one row
ReplaceEmpty(row) == [c \in DOMAIN row |-> IF row[c] \in ReplaceList THEN NA ELSE row[c]]

\* the lower-cased values the per-cell loop skips
SkipList ==
    { <<"n", "a", "n">>, <<"n", "o", "n", "e">>, <<"n", "u", "l", "l">>,
      <<"n", "a">>, <<"n", "/", "a">> }

\* mapping.get(field); NoColumn stands for None
NoColumn == "<None>"
MappingGet(m, field) == IF field \in DOMAIN m THEN m[field] ELSE NoColumn

\* "col and col in df.columns"
ColumnPresent(col, columns) == col # NoColumn /\ col \in columns

RECURSIVE KeepIndices(_, _, _)
KeepIndices(rows, keep, i) ==
    IF i > Len(rows) THEN <<>>
    ELSE (IF i \in keep THEN <<rows[i]>> ELSE <<>>) \o KeepIndices(rows, keep, i + 1)

\* df.drop_duplicates(subset=[col], keep="first"); pd.NA equals pd.NA here
DropDuplicates(rows, col) ==
    KeepIndices(rows,
                {i \in 1..Len(rows) : \A j \in 1..(i - 1) : rows[j][col] # rows[i][col]},
                1)

\* pd.isna(value) is false and the stripped value is kept by the per-cell loop
CellKept(value) ==
    /\ value # NA
    /\ Strip(value) # <<>>
    /\ Lower(Strip(value)) \notin SkipList

\* the per-cell loop: contact_data[crm_field] = cleaned value, for every
\* mapped field outside excluded whose column is in the sheet
BuildContactData(row, columns, m, excluded) ==
    LET fields == {f \in (DOMAIN m) \ excluded :
                       m[f] \in columns /\ CellKept(row[m[f]])}
    IN  [f \in fields |-> Utf8Clean(Strip(row[m[f]]))]

\* "if not phone", were it "if phone is None"
FalsyNoneOnly(s) == s = None

\* "if not phone": None or the empty string
Falsy(s) == s = None \/ s = <<>>

\* the generated phone, were it the shop name slug alone
GeneratePhoneUnnumbered(contact_data, n) ==
    IF "shop_name" \in DOMAIN contact_data /\ Strip(contact_data["shop_name"]) # <<>>
    THEN Prefix(ReplaceChar(ReplaceChar(contact_data["shop_name"], " ", "_"), "-", "_"), 15)
    ELSE <<"c", "o", "n", "t", "a", "c", "t">>

\* the generated phone: <shop name slug>_<n> or contact_<n>
GeneratePhone(contact_data, n) ==
    IF "shop_name" \in DOMAIN contact_data /\ Strip(contact_data["shop_name"]) # <<>>
    THEN Prefix(ReplaceChar(ReplaceChar(contact_data["shop_name"], " ", "_"), "-", "_"), 15)
             \o <<"_">> \o Str(n)
    ELSE <<"c", "o", "n", "t", "a", "c", "t", "_">> \o Str(n)

\* contact_data.pop(key, default): the value
PopValue(data, key, default) == IF key \in DOMAIN data THEN data[key] ELSE default

\* contact_data.pop(key, default): the dict left
PopRest(data, key) == [f \in (DOMAIN data) \ {key} |-> data[f]]

----------------------------------------------------------------------------
(* import_contacts of backend/server.py *)

\* "await db.contacts.insert_one(...)": the collection has no unique index
InsertOneUnique(store, doc) ==
    IF FindByPhone(store, doc.phone) # 0 THEN store ELSE Append(store, doc)
InsertOne(store, doc) == Append(store, doc)

ImportStart(store, id) ==
    [contacts |-> store, nextId |-> id, imported |-> 0, skipped |-> 0,
     db_duplicates |-> 0, empty_data |-> 0, processed |-> 0, generated |-> <<>>]

\* the number that ends a generated phone: f"..._{processed_count}"
GeneratedSuffixFromImported(processed_count, imported_count) == imported_count + 1
GeneratedSuffix(processed_count, imported_count) == processed_count

\* "if existing: db_duplicates_count += 1; skipped_count += 1; continue"
CountDbDuplicateOnly(st) == [st EXCEPT !.db_duplicates = @ + 1]
CountDbDuplicateDropping(st) ==
    [st EXCEPT !.db_duplicates = @ + 1, !.skipped = @ + 1, !.contacts = Tail(@)]
CountDbDuplicate(st) == [st EXCEPT !.db_duplicates = @ + 1, !.skipped = @ + 1]

\* "if not contact_data: empty_data_count += 1; skipped_count += 1; continue"
CountEmptyDataOnly(st) == [st EXCEPT !.empty_data = @ + 1]
CountEmptyData(st) == [st EXCEPT !.empty_data = @ + 1, !.skipped = @ + 1]

\* one iteration of "for index, row in df.iterrows()"
ImportRowServer(row, columns, m, st, t) ==
    LET processed_count == st.processed + 1
        phone_column == MappingGet(m, "phone")
        phone2_column == MappingGet(m, "phone2")
        customer_name_column == MappingGet(m, "customer_name")
        data0 == BuildContactData(row, columns, m, {"phone", "phone2", "customer_name"})
        phone0 == IF ColumnPresent(phone_column, columns) /\ row[phone_column] # NA
                  THEN Strip(row[phone_column]) ELSE None
        customer_name ==
            IF ColumnPresent(customer_name_column, columns) /\ row[customer_name_column] # NA
            THEN Strip(row[customer_name_column]) ELSE None
        contact_data ==
            IF ColumnPresent(phone2_column, columns) /\ row[phone2_column] # NA
            THEN ("phone2" :> Strip(row[phone2_column])) @@ data0
            ELSE data0
        phone == IF Falsy(phone0)
                 THEN GeneratePhone(contact_data,
                                    GeneratedSuffix(processed_count, st.imported))
                 ELSE phone0
        \* history: the phones generated in "if not phone", with the shop name
        \* and the row number they were generated from
        counted == [st EXCEPT
                       !.processed = processed_count,
                       !.generated =
                           IF Falsy(phone0)
                           THEN Append(@, [seq |-> processed_count,
                                           shop_name |-> PopValue(contact_data, "shop_name", None),
                                           phone |-> phone])
                           ELSE @]
    IN  IF FindByPhone(st.contacts, phone) # 0
        THEN CountDbDuplicate(counted)
        ELSE IF DOMAIN contact_data = {}
        THEN CountEmptyData(counted)
        ELSE [counted EXCEPT
                 !.contacts = InsertOne(@, Contact(st.nextId, phone, customer_name,
                                                   PopValue(contact_data, "status", sNone),
                                                   PopRest(contact_data, "status"), t)),
                 !.nextId = @ + 1,
                 !.imported = @ + 1]

RECURSIVE ImportLoopServer(_, _, _, _, _, _)
ImportLoopServer(rows, i, columns, m, st, t) ==
    IF i > Len(rows) THEN st
    ELSE ImportLoopServer(rows, i + 1, columns, m,
                          ImportRowServer(rows[i], columns, m, st, t), t)

\* the rows the loop iterates over: after df.replace and drop_duplicates
RowsAfterDedup(f, m) ==
    LET df == [i \in 1..Len(f.rows) |-> ReplaceEmpty(f.rows[i])]
    IN  IF ColumnPresent(MappingGet(m, "phone"), f.columns)
        THEN DropDuplicates(df, MappingGet(m, "phone"))
        ELSE df

\* the whole handler: final loop state
ImportServerResult(f, m, store, id, t) ==
    ImportLoopServer(RowsAfterDedup(f, m), 1, f.columns, m, ImportStart(store, id), t)

\* the JSON body returned
ImportServerResponse(f, m, st) ==
    [op |-> "import_contacts", code |-> 200,
     imported |-> st.imported, skipped |-> st.skipped,
     file_duplicates_removed |-> Len(f.rows) - Len(RowsAfterDedup(f, m)),
     db_duplicates |-> st.db_duplicates,
     empty_data_skipped |-> st.empty_data,
     total_processed |-> st.processed,
     original_excel_rows |-> Len(f.rows)]

----------------------------------------------------------------------------
(* import_contacts of backend/clean_import_function.py and clean_import.py *)

\* one iteration of the loop of backend/clean_import_function.py
ImportRowCleanFn(row, columns, m, st, t) ==
    LET phone_column == MappingGet(m, "phone")
        data0 == BuildContactData(row, columns, m, {})
        phone0 == IF ColumnPresent(phone_column, columns) /\ row[phone_column] # NA
                  THEN Strip(row[phone_column]) ELSE None
        contact_data == IF ColumnPresent(phone_column, columns)
                        THEN PopRest(data0, "phone") ELSE data0
        phone == IF Falsy(phone0) THEN GeneratePhone(contact_data, st.imported + 1) ELSE phone0
        counted == [st EXCEPT !.processed = @ + 1]
    IN  IF FindByPhone(st.contacts, phone) # 0
        THEN [counted EXCEPT !.skipped = @ + 1]
        ELSE IF DOMAIN contact_data = {}
        THEN [counted EXCEPT !.skipped = @ + 1]
        ELSE [counted EXCEPT
                 !.contacts = Append(@, Contact(st.nextId, phone, None,
                                                PopValue(contact_data, "status", sFollowUp),
                                                PopRest(contact_data, "status"), t)),
                 !.nextId = @ + 1,
                 !.imported = @ + 1]

\* one iteration of the loop of clean_import.py: the phone is not stripped
\* and a row without data is not skipped
ImportRowClean(row, columns, m, st, t) ==
    LET phone_column == MappingGet(m, "phone")
        data0 == BuildContactData(row, columns, m, {})
        phone0 == IF ColumnPresent(phone_column, columns) /\ row[phone_column] # NA
                  THEN row[phone_column] ELSE None
        contact_data == IF ColumnPresent(phone_column, columns)
                        THEN PopRest(data0, "phone") ELSE data0
        phone == IF Falsy(phone0) THEN GeneratePhone(contact_data, st.imported + 1) ELSE phone0
        counted == [st EXCEPT !.processed = @ + 1]
    IN  IF FindByPhone(st.contacts, phone) # 0
        THEN [counted EXCEPT !.skipped = @ + 1]
        ELSE [counted EXCEPT
                 !.contacts = Append(@, Contact(st.nextId, phone, None,
                                                PopValue(contact_data, "status", sFollowUp),
                                                PopRest(contact_data, "status"), t)),
                 !.nextId = @ + 1,
                 !.imported = @ + 1]

RECURSIVE ImportLoopCleanFn(_, _, _, _, _, _)
ImportLoopCleanFn(rows, i, columns, m, st, t) ==
    IF i > Len(rows) THEN st
    ELSE ImportLoopCleanFn(rows, i + 1, columns, m,
                           ImportRowCleanFn(rows[i], columns, m, st, t), t)

RECURSIVE ImportLoopClean(_, _, _, _, _, _)
ImportLoopClean(rows, i, columns, m, st, t) ==
    IF i > Len(rows) THEN st
    ELSE ImportLoopClean(rows, i + 1, columns, m,
                         ImportRowClean(rows[i], columns, m, st, t), t)

ImportCleanFnResult(f, m, store, id, t) ==
    ImportLoopCleanFn(RowsAfterDedup(f, m), 1, f.columns, m, ImportStart(store, id), t)

ImportCleanResult(f, m, store, id, t) ==
    ImportLoopClean(RowsAfterDedup(f, m), 1, f.columns, m, ImportStart(store, id), t)

\* the JSON body the two alternate implementations return
ImportCleanResponse(op, st) ==
    [op |-> op, code |-> 200, imported |-> st.imported, skipped |-> st.skipped]

----------------------------------------------------------------------------
(* Request inputs *)

Phones == { <<"1">>, <<"A", "_", "1">> }
DataChoices == { EmptyData, "shop_name" :> <<"A">> }

SheetColumns == {"Phone", "Shop"}
PhoneCells == { <<"1">>, <<"1", " ">>, <<>> }
ShopCells == { <<"A">>, <<"B">>, <<"n", "a">> }
SheetRows == { [c \in SheetColumns |-> IF c = "Phone" THEN p ELSE s] :
                   p \in PhoneCells, s \in ShopCells }

\* the sheets: the header row and up to MaxRows rows
Files == { [columns |-> SheetColumns, rows |-> r] :
               r \in UNION { [1..n -> SheetRows] : n \in 0..MaxRows } }

\* column_mapping: crm_field -> excel column
Mappings ==
    { ("phone" :> "Phone") @@ ("shop_name" :> "Shop"),
      "shop_name" :> "Shop",
      ("phone" :> "Telephone") @@ ("shop_name" :> "Shop") }

NoTarget == <<"<no target>">>

\* the fallback target: the contact id itself
IdTarget(id) == <<"<contact id>">> \o Str(id)

followVars == <<followups, dispatched, sweep>>
importVars == <<file, mapping, runs>>
satelliteVars == <<notes, meetings, demos>>

----------------------------------------------------------------------------
(* Contact routes *)

\* the callers: current_user['id']
Users == {"u1", "u2"}

\* "existing = await db.contacts.find_one({"phone": ...}); if existing:"
PhoneExistsNever(store, phone) == FALSE
PhoneExists(store, phone) == FindByPhone(store, phone) # 0

\* POST /contacts
create_contact(phone, customer_name, status, data) ==
    /\ Len(contacts) < MaxContacts
    /\ Len(activity_logs) < MaxLog
    /\ IF PhoneExists(contacts, phone)
       THEN /\ resp' = [op |-> "create_contact", phone |-> phone, code |-> 400]
            /\ UNCHANGED <<contacts, activity_logs, nextId, runs>>
       ELSE /\ contacts' = InsertOne(contacts,
                                     Contact(nextId, phone, customer_name, status, data, now))
            /\ nextId' = nextId + 1
            /\ activity_logs' = LogActivity(activity_logs, "Created contact", phone)
            /\ resp' = [op |-> "create_contact", phone |-> phone, code |-> 200]
            /\ runs' = <<>>
    /\ UNCHANGED <<stepVars, satelliteVars, followVars, now, file, mapping>>

\* "await db.contacts.update_one({"id": contact_id}, {"$set": update_data})":
\* update_data holds the fields of the request body that are not None
ApplyUpdate(contact, update_data, t) ==
    [k \in DOMAIN contact |->
        IF k \in DOMAIN update_data THEN update_data[k]
        ELSE IF k = "updated_at" THEN t
        ELSE contact[k]]

\* PUT /contacts/{contact_id}
update_contact(contact_id, updates) ==
    /\ Len(activity_logs) < MaxLog
    /\ LET i == FindById(contacts, contact_id)
       IN  IF i = 0
           THEN /\ resp' = [op |-> "update_contact", id |-> contact_id, code |-> 404]
                /\ UNCHANGED <<contacts, activity_logs, runs>>
           ELSE /\ contacts' = [contacts EXCEPT ![i] = ApplyUpdate(@, updates, now)]
                /\ activity_logs' = LogActivity(activity_logs, "Updated contact",
                                                contacts[i].phone)
                /\ resp' = [op |-> "update_contact", id |-> contact_id, code |-> 200]
                /\ runs' = <<>>
    /\ UNCHANGED <<stepVars, satelliteVars, followVars, nextId, now, file, mapping>>

\* DELETE /contacts/{contact_id}
delete_contact(contact_id) ==
    /\ Len(activity_logs) < MaxLog
    /\ LET i == FindById(contacts, contact_id)
       IN  IF i = 0
           THEN /\ resp' = [op |-> "delete_contact", id |-> contact_id, code |-> 404]
                /\ UNCHANGED <<contacts, activity_logs, runs>>
           ELSE /\ contacts' = DeleteAt(contacts, i)
                /\ activity_logs' = LogActivity(activity_logs, "Deleted contact",
                                                contacts[i].phone)
                /\ resp' = [op |-> "delete_contact", id |-> contact_id, code |-> 200]
                /\ runs' = <<>>
    /\ UNCHANGED <<stepVars, satelliteVars, followVars, nextId, now, file, mapping>>

\* POST /contacts/import (backend/server.py) on the sheet and mapping of the state
import_contacts ==
    /\ Len(runs) < MaxRuns
    /\ Len(activity_logs) < MaxLog
    /\ LET st == ImportServerResult(file, mapping, contacts, nextId, now)
           r == ImportServerResponse(file, mapping, st)
       IN  /\ contacts' = st.contacts
           /\ nextId' = st.nextId
           /\ resp' = r
           /\ runs' = Append(runs, [impl |-> "server", before |-> contacts,
                                    after |-> st.contacts, resp |-> r,
                                    generated |-> st.generated])
    /\ activity_logs' = LogActivity(activity_logs, "Imported contacts", NoTarget)
    /\ UNCHANGED <<stepVars, satelliteVars, followVars, now, file, mapping>>

\* POST /contacts/import (backend/server.py) when the store raises at row k of
\* the loop (find_one or insert_one): the rows before k are processed, the
\* exception reaches "except Exception" and the request answers 400; nothing
\* is logged
import_contacts_row_error(k) ==
    /\ k \in 1..Len(RowsAfterDedup(file, mapping))
    /\ LET rows == RowsAfterDedup(file, mapping)
           st == ImportLoopServer(SubSeq(rows, 1, k - 1), 1, file.columns, mapping,
                                  ImportStart(contacts, nextId), now)
       IN  /\ contacts' = st.contacts
           /\ nextId' = st.nextId
    /\ resp' = [op |-> "import_contacts", code |-> 400, failed_row |-> k]
    /\ runs' = <<>>
    /\ UNCHANGED <<stepVars, satelliteVars, followVars, activity_logs, now, file, mapping>>

\* POST /contacts/import as backend/clean_import_function.py implements it
import_contacts_clean_function ==
    /\ Len(runs) < MaxRuns
    /\ Len(activity_logs) < MaxLog
    /\ LET st == ImportCleanFnResult(file, mapping, contacts, nextId, now)
           r == ImportCleanResponse("import_contacts_clean_function", st)
       IN  /\ contacts' = st.contacts
           /\ nextId' = st.nextId
           /\ resp' = r
           /\ runs' = Append(runs, [impl |-> "clean_function", before |-> contacts,
                                    after |-> st.contacts, resp |-> r,
                                    generated |-> st.generated])
    /\ activity_logs' = LogActivity(activity_logs, "Imported contacts", NoTarget)
    /\ UNCHANGED <<stepVars, satelliteVars, followVars, now, file, mapping>>

\* POST /contacts/import as clean_import.py implements it
import_contacts_clean ==
    /\ Len(runs) < MaxRuns
    /\ Len(activity_logs) < MaxLog
    /\ LET st == ImportCleanResult(file, mapping, contacts, nextId, now)
           r == ImportCleanResponse("import_contacts_clean", st)
       IN  /\ contacts' = st.contacts
           /\ nextId' = st.nextId
           /\ resp' = r
           /\ runs' = Append(runs, [impl |-> "clean", before |-> contacts,
                                    after |-> st.contacts, resp |-> r,
                                    generated |-> st.generated])
    /\ activity_logs' = LogActivity(activity_logs, "Imported contacts", NoTarget)
    /\ UNCHANGED <<stepVars, satelliteVars, followVars, now, file, mapping>>

----------------------------------------------------------------------------
(* Follow-up routes *)

AlertWindow == 1    \* timedelta(minutes=30), in 30-minute units
DayLength == 48     \* one UTC day, in 30-minute units
UpcomingCap == 20   \* upcoming[:20]

\* class FollowUp
FollowUp(id, contact_id, follow_up_date) ==
    [id |-> id, contact_id |-> contact_id, follow_up_date |-> follow_up_date,
     status |-> "pending", notified |-> FALSE]

Ids(docs) == [i \in 1..Len(docs) |-> docs[i].id]

\* the number of notifications sent for a follow-up
Dispatches(sent, id) == Cardinality({i \in 1..Len(sent) : sent[i] = id})

\* target=contact['phone'] if contact else contact_id
TargetOf(store, contact_id) ==
    IF FindById(store, contact_id) # 0
    THEN store[FindById(store, contact_id)].phone
    ELSE IdTarget(contact_id)

\* POST /followups
create_followup(contact_id, follow_up_date) ==
    /\ Len(followups) < MaxFollowups
    /\ Len(activity_logs) < MaxLog
    /\ followups' = Append(followups, FollowUp(nextId, contact_id, follow_up_date))
    /\ nextId' = nextId + 1
    /\ activity_logs' = LogActivity(activity_logs, "Created follow-up",
                                    TargetOf(contacts, contact_id))
    /\ resp' = [op |-> "create_followup", code |-> 200, id |-> nextId]
    /\ UNCHANGED <<stepVars, satelliteVars, contacts, now, dispatched, sweep, importVars>>

\* insert doc into a sequence sorted by follow_up_date, after its equals
RECURSIVE InsertByDate(_, _)
InsertByDate(sorted, doc) ==
    IF sorted = <<>> THEN <<doc>>
    ELSE IF doc.follow_up_date < Head(sorted).follow_up_date THEN <<doc>> \o sorted
    ELSE <<Head(sorted)>> \o InsertByDate(Tail(sorted), doc)

\* .sort("follow_up_date", 1)
RECURSIVE SortByDate(_)
SortByDate(docs) ==
    IF docs = <<>> THEN <<>>
    ELSE InsertByDate(SortByDate(SubSeq(docs, 1, Len(docs) - 1)), docs[Len(docs)])

\* {"status": {"$in": ["pending", "overdue"]}}
Open(doc) == doc.status \in {"pending", "overdue"}

\* the UTC day a timestamp falls on
DayOf(t) == t \div DayLength

\* the follow_up_date condition the date_filter adds to the query
InDateFilter(doc, date_filter, t) ==
    CASE date_filter = "today" -> DayOf(doc.follow_up_date) = DayOf(t)
      [] date_filter = "tomorrow" -> DayOf(doc.follow_up_date) = DayOf(t) + 1
      [] date_filter = "this_week" ->
             DayOf(t) <= DayOf(doc.follow_up_date) /\ DayOf(doc.follow_up_date) <= DayOf(t) + 7
      [] OTHER -> TRUE

\* "followup['follow_up_date'] < now"
PastDue(doc, t) == doc.follow_up_date < t

\* update_one({"id": id}, {"$set": {"status": status}}) for every id of ids
SetStatus(docs, ids, status) ==
    [i \in 1..Len(docs) |->
        IF docs[i].id \in ids THEN [docs[i] EXCEPT !.status = status] ELSE docs[i]]

\* the documents of a listing as the response carries them: re-tagged ones
\* show the new status
Shown(docs, retag) ==
    [i \in 1..Len(docs) |->
        IF docs[i].id \in retag THEN [docs[i] EXCEPT !.status = "overdue"] ELSE docs[i]]

HasContact(store, doc) == FindById(store, doc.contact_id) # 0

\* GET /followups
get_followups(status) ==
    /\ LET found == SortByDate(SelectSeq(followups,
                                         LAMBDA d : status = "" \/ d.status = status))
       IN  resp' = [op |-> "get_followups", code |-> 200, fetched |-> Ids(found),
                    followups |-> found]
    /\ UNCHANGED <<stepVars, satelliteVars, contacts, followups, activity_logs, nextId, now,
                   dispatched, sweep,
                   importVars>>

\* GET /followups/upcoming
get_upcoming_followups ==
    /\ LET found == SortByDate(SelectSeq(followups, Open))
           retag == {found[i].id : i \in {j \in 1..Len(found) :
                         PastDue(found[j], now) /\ found[j].status # "overdue"}}
           shown == Shown(found, retag)
           overdue == SelectSeq(shown, LAMBDA d : PastDue(d, now))
           upcoming == SelectSeq(shown, LAMBDA d : ~PastDue(d, now))
       IN  /\ followups' = SetStatus(followups, retag, "overdue")
           /\ resp' = [op |-> "get_upcoming_followups", code |-> 200,
                       fetched |-> Ids(found), overdue |-> overdue,
                       upcoming |-> Prefix(upcoming, UpcomingCap)]
    /\ UNCHANGED <<stepVars, satelliteVars, contacts, activity_logs, nextId, now, dispatched,
                   sweep, importVars>>

\* GET /followups/by-date
get_followups_by_date(date_filter) ==
    /\ LET found == SortByDate(SelectSeq(followups,
                        LAMBDA d : Open(d) /\ InDateFilter(d, date_filter, now)))
           result == SelectSeq(found, LAMBDA d : HasContact(contacts, d))
       IN  resp' = [op |-> "get_followups_by_date", code |-> 200, fetched |-> Ids(found),
                    filter |-> date_filter, count |-> Len(result), followups |-> result]
    /\ UNCHANGED <<stepVars, satelliteVars, contacts, followups, activity_logs, nextId, now,
                   dispatched, sweep,
                   importVars>>

\* .skip(skip).limit(limit)
Page(docs, skip, limit) ==
    SubSeq(docs, skip + 1, IF Len(docs) < skip + limit THEN Len(docs) ELSE skip + limit)

\* GET /followups/paginated
get_paginated_followups(skip, limit, date_filter) ==
    /\ LET found == Page(SortByDate(SelectSeq(followups,
                             LAMBDA d : Open(d) /\ InDateFilter(d, date_filter, now))),
                         skip, limit)
           retag == {found[i].id : i \in {j \in 1..Len(found) :
                         PastDue(found[j], now) /\ found[j].status # "overdue"}}
           result == SelectSeq(Shown(found, retag), LAMBDA d : HasContact(contacts, d))
       IN  /\ followups' = SetStatus(followups, retag, "overdue")
           /\ resp' = [op |-> "get_paginated_followups", code |-> 200,
                       fetched |-> Ids(found), followups |-> result]
    /\ UNCHANGED <<stepVars, satelliteVars, contacts, activity_logs, nextId, now, dispatched,
                   sweep, importVars>>

\* PUT /followups/{followup_id}/complete
complete_followup(followup_id) ==
    /\ Len(activity_logs) < MaxLog
    /\ LET i == FindById(followups, followup_id)
       IN  IF i = 0
           THEN /\ resp' = [op |-> "complete_followup", id |-> followup_id, code |-> 404]
                /\ UNCHANGED <<followups, activity_logs>>
           ELSE /\ followups' = SetStatus(followups, {followup_id}, "completed")
                /\ activity_logs' = LogActivity(activity_logs, "Completed follow-up",
                                                TargetOf(contacts, followups[i].contact_id))
                /\ resp' = [op |-> "complete_followup", id |-> followup_id, code |-> 200]
    /\ UNCHANGED <<stepVars, satelliteVars, contacts, nextId, now, dispatched, sweep, importVars>>

----------------------------------------------------------------------------
(* The alert sweep *)

\* the query of the sweep, without the notified flag
DueForAlertAnyFlag(doc, t) ==
    /\ doc.status = "pending"
    /\ doc.follow_up_date <= t + AlertWindow

\* the query of the sweep: status pending, notified false, due within 30 minutes
DueForAlert(doc, t) ==
    /\ doc.status = "pending"
    /\ doc.notified = FALSE
    /\ doc.follow_up_date <= t + AlertWindow

\* the update of the sweep, were it to record the alert in status
MarkNotifiedInStatus(doc) == [doc EXCEPT !.notified = TRUE, !.status = "notified"]

\* {"$set": {"notified": True}}
MarkNotified(doc) == [doc EXCEPT !.notified = TRUE]

\* update_one({"id": id}, {"$set": {"notified": True}})
SetNotified(docs, id) ==
    [i \in 1..Len(docs) |-> IF docs[i].id = id THEN MarkNotified(docs[i]) ELSE docs[i]]

\* the loop of the sweep over the follow-ups it selected: the state is the
\* store and the notifications sent
RECURSIVE AlertLoop(_, _, _, _)
AlertLoop(todo, store, docs, sent) ==
    IF todo = <<>> THEN [followups |-> docs, sent |-> sent]
    ELSE IF ~HasContact(store, Head(todo))
    THEN AlertLoop(Tail(todo), store, docs, sent)
    ELSE AlertLoop(Tail(todo), store, SetNotified(docs, Head(todo).id),
                   Append(sent, Head(todo).id))

\* check_followup_alerts, run without interruption
check_followup_alerts ==
    /\ LET todo == SelectSeq(followups, LAMBDA d : DueForAlert(d, now))
           done == AlertLoop(todo, contacts, followups, <<>>)
       IN  /\ followups' = done.followups
           /\ dispatched' = dispatched \o done.sent
           /\ resp' = [op |-> "check_followup_alerts", selected |-> Ids(todo),
                       sent |-> done.sent]
    /\ UNCHANGED <<stepVars, satelliteVars, contacts, activity_logs, nextId, now, sweep, importVars>>

\* check_followup_alerts step by step, for executions that overlap
\* "followups = await db.followups.find({...}).to_list(None)"
sweep_find(p) ==
    /\ sweep[p].pc = "idle"
    /\ LET todo == SelectSeq(followups, LAMBDA d : DueForAlert(d, now))
       IN  sweep' = [sweep EXCEPT ![p] = [pc |-> IF todo = <<>> THEN "idle" ELSE "contact",
                                          todo |-> todo]]
    /\ resp' = [op |-> "sweep_find", proc |-> p]
    /\ UNCHANGED <<stepVars, satelliteVars, contacts, followups, activity_logs, nextId, now,
                   dispatched, importVars>>

\* what is left to do after the follow-up at the head of todo
SweepAdvance(s) ==
    [pc |-> IF Tail(s.todo) = <<>> THEN "idle" ELSE "contact", todo |-> Tail(s.todo)]

\* "contact = await db.contacts.find_one(...); if not contact: continue"
sweep_contact(p) ==
    /\ sweep[p].pc = "contact"
    /\ sweep' = [sweep EXCEPT ![p] = IF HasContact(contacts, Head(sweep[p].todo))
                                     THEN [@ EXCEPT !.pc = "send"]
                                     ELSE SweepAdvance(@)]
    /\ resp' = [op |-> "sweep_contact", proc |-> p]
    /\ UNCHANGED <<stepVars, satelliteVars, contacts, followups, activity_logs, nextId, now,
                   dispatched, importVars>>

\* "await send_email_notification(...)"
sweep_send(p) ==
    /\ sweep[p].pc = "send"
    /\ dispatched' = Append(dispatched, Head(sweep[p].todo).id)
    /\ sweep' = [sweep EXCEPT ![p].pc = "mark"]
    /\ resp' = [op |-> "sweep_send", proc |-> p]
    /\ UNCHANGED <<stepVars, satelliteVars, contacts, followups, activity_logs, nextId, now,
                   importVars>>

\* "await db.followups.update_one({"id": ...}, {"$set": {"notified": True}})"
sweep_mark(p) ==
    /\ sweep[p].pc = "mark"
    /\ followups' = SetNotified(followups, Head(sweep[p].todo).id)
    /\ sweep' = [sweep EXCEPT ![p] = SweepAdvance(@)]
    /\ resp' = [op |-> "sweep_mark", proc |-> p]
    /\ UNCHANGED <<stepVars, satelliteVars, contacts, activity_logs, nextId, now, dispatched,
                   importVars>>

----------------------------------------------------------------------------
(* Contact routes that read or touch one contact *)

\* GET /contacts/{contact_id}
get_contact(contact_id) ==
    /\ LET i == FindById(contacts, contact_id)
       IN  resp' = IF i = 0
                   THEN [op |-> "get_contact", id |-> contact_id, code |-> 404]
                   ELSE [op |-> "get_contact", id |-> contact_id, code |-> 200,
                         contact |-> contacts[i]]
    /\ UNCHANGED <<stepVars, satelliteVars, followVars, importVars, contacts, activity_logs,
                   nextId, now>>

\* POST /contacts/{contact_id}/call
log_call(contact_id) ==
    /\ Len(activity_logs) < MaxLog
    /\ LET i == FindById(contacts, contact_id)
       IN  IF i = 0
           THEN /\ resp' = [op |-> "log_call", id |-> contact_id, code |-> 404]
                /\ UNCHANGED <<contacts, activity_logs, runs>>
           ELSE /\ contacts' = [contacts EXCEPT ![i].last_call_at = now]
                /\ activity_logs' = LogActivity(activity_logs, "Called contact",
                                                contacts[i].phone)
                /\ resp' = [op |-> "log_call", id |-> contact_id, code |-> 200]
                /\ runs' = <<>>
    /\ UNCHANGED <<stepVars, satelliteVars, followVars, nextId, now, file, mapping>>

----------------------------------------------------------------------------
(* Notes *)

\* class Note
Note(id, contact_id, user_id, content) ==
    [id |-> id, contact_id |-> contact_id, user_id |-> user_id, content |-> content]

\* POST /notes
create_note(user, contact_id, content) ==
    /\ Len(notes) < MaxNotes
    /\ Len(activity_logs) < MaxLog
    /\ notes' = Append(notes, Note(nextId, contact_id, user, content))
    /\ nextId' = nextId + 1
    /\ activity_logs' = LogActivity(activity_logs, "Added note",
                                    TargetOf(contacts, contact_id))
    /\ resp' = [op |-> "create_note", code |-> 200, id |-> nextId]
    /\ UNCHANGED <<stepVars, followVars, importVars, contacts, meetings, demos, now>>

----------------------------------------------------------------------------
(* Demos *)

\* class Demo
Demo(id, contact_id, user_id, t) ==
    [id |-> id, contact_id |-> contact_id, user_id |-> user_id, given_at |-> t,
     watched |-> FALSE, watched_at |-> NoTime, updated_at |-> t]

\* "if not contact" of create_demo, were the contact never looked up
DemoContactMissingNever(store, contact_id) == FALSE

\* "contact = await db.contacts.find_one({"id": ...}); if not contact:"
DemoContactMissing(store, contact_id) == FindById(store, contact_id) = 0

\* POST /demos
create_demo(user, contact_id) ==
    /\ Len(demos) < MaxDemos
    /\ Len(activity_logs) < MaxLog
    /\ IF DemoContactMissing(contacts, contact_id)
       THEN /\ resp' = [op |-> "create_demo", id |-> contact_id, code |-> 404]
            /\ UNCHANGED <<demos, nextId, activity_logs>>
       ELSE /\ demos' = Append(demos, Demo(nextId, contact_id, user, now))
            /\ nextId' = nextId + 1
            /\ activity_logs' = LogActivity(activity_logs, "Demo given",
                                            TargetOf(contacts, contact_id))
            /\ resp' = [op |-> "create_demo", id |-> contact_id, code |-> 200,
                        demo |-> nextId]
    /\ UNCHANGED <<stepVars, followVars, importVars, contacts, notes, meetings, now>>

\* "watch_data.watched_at or datetime.now(timezone.utc).isoformat()"
WatchedAt(watched_at, t) == IF watched_at # NoTime THEN watched_at ELSE t

\* {"$set": {"watched": True, "watched_at": watched_at, "updated_at": now}}
SetWatched(demo, watched_at, t) ==
    [demo EXCEPT !.watched = TRUE, !.watched_at = watched_at, !.updated_at = t]

\* "if demo['user_id'] != current_user['id']"
DemoOfAnotherNever(demo, user) == FALSE
DemoOfAnother(demo, user) == demo.user_id # user

\* PUT /demos/{demo_id}/watched
mark_demo_watched(user, demo_id, watched_at) ==
    /\ LET i == FindById(demos, demo_id)
       IN  IF i = 0
           THEN /\ resp' = [op |-> "mark_demo_watched", id |-> demo_id, code |-> 404]
                /\ UNCHANGED <<demos, activity_logs>>
           ELSE IF DemoOfAnother(demos[i], user)
           THEN /\ resp' = [op |-> "mark_demo_watched", id |-> demo_id, code |-> 403,
                            user |-> user]
                /\ UNCHANGED <<demos, activity_logs>>
           ELSE /\ HasContact(contacts, demos[i]) => Len(activity_logs) < MaxLog
                /\ demos' = [demos EXCEPT
                                 ![i] = SetWatched(@, WatchedAt(watched_at, now), now)]
                /\ activity_logs' =
                       IF HasContact(contacts, demos[i])
                       THEN LogActivity(activity_logs, "Demo watched",
                                        TargetOf(contacts, demos[i].contact_id))
                       ELSE activity_logs
                /\ resp' = [op |-> "mark_demo_watched", id |-> demo_id, code |-> 200,
                            user |-> user, supplied |-> watched_at,
                            watched_at |-> WatchedAt(watched_at, now)]
    /\ UNCHANGED <<stepVars, followVars, importVars, contacts, notes, meetings, nextId, now>>

----------------------------------------------------------------------------
(* Meetings *)

MeetingsLimit == 100    \* the default limit of GET /meetings

\* class Meeting; time, location and notes are free text like title
Meeting(id, user_id, title, date, attendees) ==
    [id |-> id, user_id |-> user_id, title |-> title, date |-> date,
     attendees |-> attendees, status |-> "scheduled"]

\* the log target: the phone of the first attendee when it is the phone of a
\* contact, else the meeting's title
MeetingTarget(store, attendees, title) ==
    IF /\ attendees # <<>>
       /\ "phone" \in DOMAIN attendees[1]
       /\ FindByPhone(store, attendees[1]["phone"]) # 0
    THEN attendees[1]["phone"]
    ELSE title

\* find_one({"id": meeting_id}), were the caller left out of the query
FindMeetingAnyUser(store, meeting_id, user) ==
    First({i \in 1..Len(store) : store[i].id = meeting_id})

\* find_one({"id": meeting_id, "user_id": current_user['id']})
FindMeeting(store, meeting_id, user) ==
    First({i \in 1..Len(store) : store[i].id = meeting_id /\ store[i].user_id = user})

\* POST /meetings
create_meeting(user, title, date, attendees) ==
    /\ Len(meetings) < MaxMeetings
    /\ Len(activity_logs) < MaxLog
    /\ meetings' = Append(meetings, Meeting(nextId, user, title, date, attendees))
    /\ nextId' = nextId + 1
    /\ activity_logs' = LogActivity(activity_logs, "Created meeting",
                                    MeetingTarget(contacts, attendees, title))
    /\ resp' = [op |-> "create_meeting", code |-> 200, user |-> user, id |-> nextId]
    /\ UNCHANGED <<stepVars, followVars, importVars, contacts, notes, demos, now>>

\* insert doc into a sequence sorted by date, after its equals
RECURSIVE InsertByMeetingDate(_, _)
InsertByMeetingDate(sorted, doc) ==
    IF sorted = <<>> THEN <<doc>>
    ELSE IF doc.date < Head(sorted).date THEN <<doc>> \o sorted
    ELSE <<Head(sorted)>> \o InsertByMeetingDate(Tail(sorted), doc)

\* .sort("date", 1)
RECURSIVE SortByMeetingDate(_)
SortByMeetingDate(docs) ==
    IF docs = <<>> THEN <<>>
    ELSE InsertByMeetingDate(SortByMeetingDate(SubSeq(docs, 1, Len(docs) - 1)),
                             docs[Len(docs)])

\* GET /meetings; status "" stands for no status filter
get_meetings(user, skip, limit, status) ==
    /\ LET found == SelectSeq(meetings,
                              LAMBDA d : /\ d.user_id = user
                                         /\ status = "" \/ d.status = status)
       IN  resp' = [op |-> "get_meetings", code |-> 200, user |-> user,
                    meetings |-> Page(SortByMeetingDate(found), skip, limit)]
    /\ UNCHANGED <<stepVars, satelliteVars, followVars, importVars, contacts, activity_logs,
                   nextId, now>>

\* GET /meetings/{meeting_id}
get_meeting(user, meeting_id) ==
    /\ LET i == FindMeeting(meetings, meeting_id, user)
       IN  resp' = IF i = 0
                   THEN [op |-> "get_meeting", user |-> user, id |-> meeting_id,
                         code |-> 404]
                   ELSE [op |-> "get_meeting", user |-> user, id |-> meeting_id,
                         code |-> 200, meeting |-> meetings[i]]
    /\ UNCHANGED <<stepVars, satelliteVars, followVars, importVars, contacts, activity_logs,
                   nextId, now>>

\* {"$set": update_data}: update_data holds the fields of the body that are
\* not None
ApplyMeetingUpdate(meeting, update_data) ==
    [k \in DOMAIN meeting |-> IF k \in DOMAIN update_data THEN update_data[k] ELSE meeting[k]]

\* the action update_meeting logs
MeetingUpdateAction(update_data) ==
    IF "date" \in DOMAIN update_data THEN "Rescheduled meeting"
    ELSE IF "status" \in DOMAIN update_data THEN "Updated meeting status to {status}"
    ELSE "Updated meeting"

\* PUT /meetings/{meeting_id}
update_meeting(user, meeting_id, update_data) ==
    /\ Len(activity_logs) < MaxLog
    /\ LET i == FindMeeting(meetings, meeting_id, user)
       IN  IF i = 0
           THEN /\ resp' = [op |-> "update_meeting", user |-> user, id |-> meeting_id,
                            code |-> 404]
                /\ UNCHANGED <<meetings, activity_logs>>
           ELSE IF DOMAIN update_data = {}
           THEN /\ resp' = [op |-> "update_meeting", user |-> user, id |-> meeting_id,
                            code |-> 400]
                /\ UNCHANGED <<meetings, activity_logs>>
           ELSE /\ meetings' = [meetings EXCEPT ![i] = ApplyMeetingUpdate(@, update_data)]
                /\ activity_logs' =
                       LogActivity(activity_logs, MeetingUpdateAction(update_data),
                                   MeetingTarget(contacts, meetings[i].attendees,
                                                 meetings[i].title))
                /\ resp' = [op |-> "update_meeting", user |-> user, id |-> meeting_id,
                            code |-> 200]
    /\ UNCHANGED <<stepVars, followVars, importVars, contacts, notes, demos, nextId, now>>

\* ["scheduled", "completed", "cancelled"]
MeetingStatuses == {"scheduled", "completed", "cancelled"}

\* the action update_meeting_status logs
MeetingStatusAction(status) ==
    IF status = "completed" THEN "Completed meeting"
    ELSE IF status = "cancelled" THEN "Cancelled meeting"
    ELSE "Updated meeting status to {status}"

\* PUT /meetings/{meeting_id}/status
update_meeting_status(user, meeting_id, status) ==
    /\ Len(activity_logs) < MaxLog
    /\ LET i == FindMeeting(meetings, meeting_id, user)
       IN  IF status \notin MeetingStatuses
           THEN /\ resp' = [op |-> "update_meeting_status", user |-> user,
                            id |-> meeting_id, status |-> status, code |-> 400]
                /\ UNCHANGED <<meetings, activity_logs>>
           ELSE IF i = 0
           THEN /\ resp' = [op |-> "update_meeting_status", user |-> user,
                            id |-> meeting_id, status |-> status, code |-> 404]
                /\ UNCHANGED <<meetings, activity_logs>>
           ELSE /\ meetings' = [meetings EXCEPT ![i].status = status]
                /\ activity_logs' =
                       LogActivity(activity_logs, MeetingStatusAction(status),
                                   MeetingTarget(contacts, meetings[i].attendees,
                                                 meetings[i].title))
                /\ resp' = [op |-> "update_meeting_status", user |-> user,
                            id |-> meeting_id, status |-> status, code |-> 200]
    /\ UNCHANGED <<stepVars, followVars, importVars, contacts, notes, demos, nextId, now>>

\* DELETE /meetings/{meeting_id}
delete_meeting(user, meeting_id) ==
    /\ Len(activity_logs) < MaxLog
    /\ LET i == FindMeeting(meetings, meeting_id, user)
       IN  IF i = 0
           THEN /\ resp' = [op |-> "delete_meeting", user |-> user, id |-> meeting_id,
                            code |-> 404]
                /\ UNCHANGED <<meetings, activity_logs>>
           ELSE /\ meetings' = DeleteAt(meetings, i)
                /\ activity_logs' =
                       LogActivity(activity_logs, "Deleted meeting",
                                   MeetingTarget(contacts, meetings[i].attendees,
                                                 meetings[i].title))
                /\ resp' = [op |-> "delete_meeting", user |-> user, id |-> meeting_id,
                            code |-> 200]
    /\ UNCHANGED <<stepVars, followVars, importVars, contacts, notes, demos, nextId, now>>

----------------------------------------------------------------------------
(* Specifications *)

StartTime == 47     \* the clock at start-up: half an hour before midnight UTC

NoSweep == [pc |-> "idle", todo |-> <<>>]
SweepProcs == {1, 2}

\* the requests the server may be handling at once, and a request slot at rest
RequestProcs == {1, 2}

Idle == [pc |-> "idle"]

InitStore ==
    /\ contacts = <<>>
    /\ followups = <<>>
    /\ activity_logs = <<>>
    /\ nextId = 1
    /\ now = StartTime
    /\ dispatched = <<>>
    /\ resp = [op |-> "none"]
    /\ runs = <<>>
    /\ sweep = [p \in SweepProcs |-> NoSweep]
    /\ notes = <<>>
    /\ meetings = <<>>
    /\ demos = <<>>
    /\ inflight = [p \in RequestProcs |-> Idle]
    /\ undelivered = {}

\* the store after construction, and one sheet and mapping to upload
Init ==
    /\ InitStore
    /\ file \in Files
    /\ mapping \in Mappings

ShopA == "shop_name" :> <<"A">>

CreateContactAny ==
    \E phone \in Phones, data \in DataChoices :
        create_contact(phone, None, sNone, data)

\* update_data of the requests: a new phone or new data
UpdateChoices ==
    { "phone" :> p : p \in Phones } \cup { "data" :> EmptyData }

UpdateContactAny ==
    \E id \in 1..nextId, u \in UpdateChoices : update_contact(id, u)

DeleteContactAny ==
    \E id \in 1..nextId : delete_contact(id)

CreateShopContact ==
    \E phone \in Phones : create_contact(phone, None, sNone, ShopA)

CreateOneContact == create_contact(<<"1">>, None, sNone, ShopA)

\* imports by backend/server.py of one sheet, on a store that direct creation
\* also changes
NextImport ==
    \/ CreateShopContact
    \/ import_contacts

SpecImport == Init /\ [][NextImport]_vars

\* the same with the alternate implementations
NextImportAlt ==
    \/ CreateShopContact
    \/ import_contacts_clean_function
    \/ import_contacts_clean

SpecImportAlt == Init /\ [][NextImportAlt]_vars

\* sheets of one row with a phone, whose other cells are a value, an absent
\* value as df.replace lists it, or an absent value in another case or padded
FieldCells == { <<"A">>, <<"n", "a">>, <<"N", "a">>, <<" ", " ">> }
FieldColumns == {"Phone", "Phone2", "Name", "Shop"}
FieldSheets ==
    { [columns |-> FieldColumns,
       rows |-> << [c \in FieldColumns |->
                      CASE c = "Phone" -> <<"1">>
                        [] c = "Phone2" -> p2
                        [] c = "Name" -> n
                        [] OTHER -> s] >>] :
          p2 \in FieldCells, n \in FieldCells, s \in FieldCells }

InitFields ==
    /\ InitStore
    /\ file \in FieldSheets
    /\ mapping = ("phone" :> "Phone") @@ ("phone2" :> "Phone2")
                     @@ ("customer_name" :> "Name") @@ ("shop_name" :> "Shop")

\* imports by backend/server.py of a sheet with every kind of mapped field
NextFields == import_contacts

SpecFields == InitFields /\ [][NextFields]_vars

\* the scenario sheets: three rows with columns Phone, Name, Email; row k has a
\* blank Phone and the Name "Ace Shop", the others have distinct phones
AceShop == <<"A", "c", "e", " ", "S", "h", "o", "p">>
BlankCells == { <<>>, <<" ", " ">> }
ScenarioColumns == {"Phone", "Name", "Email"}
ScenarioPhones == { <<"1">>, <<"2">>, <<"3">> }
ScenarioSheets ==
    { [columns |-> ScenarioColumns,
       rows |-> [i \in 1..3 |->
                   [c \in ScenarioColumns |->
                       CASE c = "Phone" -> IF i = k THEN blank ELSE ph[i]
                         [] c = "Name" -> IF i = k THEN AceShop ELSE nm
                         [] OTHER -> IF i = k THEN em ELSE <<"e">>]]] :
          k \in 1..3, blank \in BlankCells, nm \in {AceShop, <<"B">>},
          em \in { <<"e">>, <<"f">> },
          ph \in {f \in [1..3 -> ScenarioPhones] : \A a, b \in 1..3 : a # b => f[a] # f[b]} }

InitScenario ==
    /\ InitStore
    /\ file \in ScenarioSheets
    /\ mapping = ("phone" :> "Phone") @@ ("customer_name" :> "Name")
                     @@ ("email" :> "Email")

\* imports by backend/server.py of a scenario sheet
NextScenario == import_contacts

SpecScenario == InitScenario /\ [][NextScenario]_vars

ImportRowErrorAny == \E k \in 1..MaxRows : import_contacts_row_error(k)

\* imports by backend/server.py on a store that may fail
NextImportFaults ==
    \/ import_contacts
    \/ ImportRowErrorAny

SpecImportFaults == Init /\ [][NextImportFaults]_vars

\* contact requests, one at a time
NextContacts ==
    \/ CreateContactAny
    \/ UpdateContactAny
    \/ DeleteContactAny
    \/ import_contacts

\* the sheets whose rows all carry the shop name "A"
ShopASheets == {f \in Files : \A i \in DOMAIN f.rows : f.rows[i]["Shop"] = <<"A">>}

InitContacts ==
    /\ InitStore
    /\ file \in ShopASheets
    /\ mapping = ("phone" :> "Phone") @@ ("shop_name" :> "Shop")

SpecContacts == InitContacts /\ [][NextContacts]_vars

\* the clock advances
Tick ==
    /\ now < StartTime + MaxTime
    /\ now' = now + 1
    /\ resp' = [op |-> "tick"]
    /\ UNCHANGED <<stepVars, satelliteVars, contacts, followups, activity_logs, nextId,
                   dispatched, sweep, importVars>>

FollowUpDates == {StartTime - 1, StartTime + 1, StartTime + 2}
DateFilters == {"today", "tomorrow", "this_week", "all"}
StatusFilters == {"", "pending"}

CreateFollowupAny ==
    \E contact_id \in 1..nextId, d \in FollowUpDates : create_followup(contact_id, d)

GetFollowupsAny == \E status \in StatusFilters : get_followups(status)

GetFollowupsByDateAny == \E f \in DateFilters : get_followups_by_date(f)

\* the first page at the default limit, and a second page of one
Pages == { [skip |-> 0, limit |-> UpcomingCap], [skip |-> 1, limit |-> 1] }

GetPaginatedFollowupsAny ==
    \E pg \in Pages, f \in DateFilters : get_paginated_followups(pg.skip, pg.limit, f)

CompleteFollowupAny == \E id \in 1..nextId : complete_followup(id)

InitFollowups ==
    /\ InitStore
    /\ file = [columns |-> {}, rows |-> <<>>]
    /\ mapping = "shop_name" :> "Shop"

\* follow-up requests one at a time, the sweep between them
NextFollowups ==
    \/ CreateOneContact
    \/ DeleteContactAny
    \/ CreateFollowupAny
    \/ GetFollowupsAny
    \/ get_upcoming_followups
    \/ GetFollowupsByDateAny
    \/ GetPaginatedFollowupsAny
    \/ CompleteFollowupAny
    \/ check_followup_alerts
    \/ Tick

SpecFollowups == InitFollowups /\ [][NextFollowups]_vars

\* the scheduler runs the sweep again and again, and time passes
FairSpecFollowups ==
    SpecFollowups /\ WF_vars(check_followup_alerts) /\ WF_vars(Tick)

SweepFindAny == \E p \in SweepProcs : sweep_find(p)
SweepContactAny == \E p \in SweepProcs : sweep_contact(p)
SweepSendAny == \E p \in SweepProcs : sweep_send(p)
SweepMarkAny == \E p \in SweepProcs : sweep_mark(p)

\* two executions of the sweep that interleave at their awaits
NextOverlap ==
    \/ CreateOneContact
    \/ CreateFollowupAny
    \/ SweepFindAny
    \/ SweepContactAny
    \/ SweepSendAny
    \/ SweepMarkAny
    \/ Tick

SpecOverlap == InitFollowups /\ [][NextOverlap]_vars

CreateNoteOne == \E contact_id \in 1..nextId : create_note("u1", contact_id, <<"x">>)

CreateDemoOne == \E contact_id \in 1..nextId : create_demo("u1", contact_id)

\* contacts with notes, follow-ups and demos, and their deletion
NextDelete ==
    \/ CreateShopContact
    \/ CreateNoteOne
    \/ CreateFollowupAny
    \/ CreateDemoOne
    \/ DeleteContactAny

SpecDelete == InitFollowups /\ [][NextDelete]_vars

\* request bodies of the meeting routes
MeetingAttendees == { <<>>, <<[phone |-> <<"1">>]>> }
MeetingUpdates ==
    { EmptyData, "status" :> "postponed", "date" :> (StartTime + 1) }
StatusBodies == {"completed", "cancelled", "postponed"}

CreateMeetingAny ==
    \E user \in Users, attendees \in MeetingAttendees :
        create_meeting(user, <<"T">>, StartTime, attendees)

GetMeetingsAny ==
    \E user \in Users, status \in {"", "scheduled"} :
        get_meetings(user, 0, MeetingsLimit, status)

GetMeetingAny == \E user \in Users, id \in 1..nextId : get_meeting(user, id)

UpdateMeetingAny ==
    \E user \in Users, id \in 1..nextId, u \in MeetingUpdates : update_meeting(user, id, u)

UpdateMeetingStatusAny ==
    \E user \in Users, id \in 1..nextId, status \in StatusBodies :
        update_meeting_status(user, id, status)

DeleteMeetingAny == \E user \in Users, id \in 1..nextId : delete_meeting(user, id)

\* meeting requests of two users, one at a time
NextMeetings ==
    \/ CreateMeetingAny
    \/ GetMeetingsAny
    \/ GetMeetingAny
    \/ UpdateMeetingAny
    \/ UpdateMeetingStatusAny
    \/ DeleteMeetingAny

SpecMeetings == InitFollowups /\ [][NextMeetings]_vars

CreateDemoAny ==
    \E user \in Users, contact_id \in 1..nextId : create_demo(user, contact_id)

\* watched_at of the request bodies: absent, or a time before start-up
WatchedAtBodies == {NoTime, StartTime - 1}

MarkDemoWatchedAny ==
    \E user \in Users, id \in 1..nextId, watched_at \in WatchedAtBodies :
        mark_demo_watched(user, id, watched_at)

\* demos given and watched, while contacts come and go and time passes
NextDemos ==
    \/ CreateOneContact
    \/ DeleteContactAny
    \/ CreateDemoAny
    \/ MarkDemoWatchedAny
    \/ Tick

SpecDemos == InitFollowups /\ [][NextDemos]_vars

\* every route that changes notes, follow-ups, meetings or demos, on a store
\* whose contacts come and go
NextSatellite ==
    \/ CreateOneContact
    \/ DeleteContactAny
    \/ CreateNoteOne
    \/ CreateFollowupAny
    \/ CompleteFollowupAny
    \/ CreateMeetingAny
    \/ UpdateMeetingAny
    \/ UpdateMeetingStatusAny
    \/ DeleteMeetingAny
    \/ CreateDemoAny
    \/ MarkDemoWatchedAny

SpecSatellite == InitFollowups /\ [][NextSatellite]_vars

GetContactAny == \E id \in 1..nextId : get_contact(id)

LogCallAny == \E id \in 1..nextId : log_call(id)

\* requests that name a contact, a follow-up or a demo by id, in the store or
\* not
NextNotFound ==
    \/ CreateOneContact
    \/ GetContactAny
    \/ UpdateContactAny
    \/ DeleteContactAny
    \/ LogCallAny
    \/ CreateDemoOne
    \/ CreateFollowupAny
    \/ CompleteFollowupAny
    \/ MarkDemoWatchedAny

SpecNotFound == InitFollowups /\ [][NextNotFound]_vars

----------------------------------------------------------------------------
(* Contacts: claims *)

\* C1: after any sequence of create_contact, update_contact, delete_contact and
\* import_contacts requests run one at a time, no two contacts in the store
\* have the same phone.
PhoneUnique ==
    \A i, j \in 1..Len(contacts) : i # j => contacts[i].phone # contacts[j].phone

\* C2: create_contact with the phone of a contact already in the store answers
\* 400 and writes nothing: the contacts and the activity log stay as they were.
DuplicateCreateRejected ==
    [][ (/\ resp'.op = "create_contact"
         /\ \E i \in 1..Len(contacts) : contacts[i].phone = resp'.phone)
        => (/\ resp'.code = 400
            /\ contacts' = contacts
            /\ activity_logs' = activity_logs) ]_vars

\* a create_contact request was just rejected as a duplicate of a stored contact
DuplicateCreateSeen ==
    /\ resp.op = "create_contact"
    /\ resp.code = 400
    /\ \E i \in 1..Len(contacts) : contacts[i].phone = resp.phone

\* C15: a delete_contact that succeeds removes the contact document and
\* nothing else from db.contacts, appends one activity-log entry, and leaves
\* the notes, follow-ups and demos, those of the deleted contact included, as
\* they were.
DeleteKeepsSatellites ==
    [][ (resp'.op = "delete_contact" /\ resp'.code = 200)
        => (/\ notes' = notes
            /\ followups' = followups
            /\ demos' = demos
            /\ \E i \in 1..Len(contacts) :
                   /\ contacts[i].id = resp'.id
                   /\ contacts' = [j \in 1..(Len(contacts) - 1) |->
                                      IF j < i THEN contacts[j] ELSE contacts[j + 1]]
            /\ Len(activity_logs') = Len(activity_logs) + 1
            /\ SubSeq(activity_logs', 1, Len(activity_logs)) = activity_logs) ]_vars

\* a contact was just deleted and a note, a follow-up or a demo that refers to
\* it is in the store
DeletedContactReferenced ==
    /\ resp.op = "delete_contact"
    /\ resp.code = 200
    /\ FindById(contacts, resp.id) = 0
    /\ \/ \E i \in 1..Len(notes) : notes[i].contact_id = resp.id
       \/ \E i \in 1..Len(followups) : followups[i].contact_id = resp.id
       \/ \E i \in 1..Len(demos) : demos[i].contact_id = resp.id

----------------------------------------------------------------------------
(* Import: claims *)

\* the number of rows left by in-file dedup, counted from the sheet: the
\* distinct values of the phone column when it is designated and present,
\* every row otherwise
RemainingRows ==
    LET col == MappingGet(mapping, "phone")
    IN  IF col # NoColumn /\ col \in file.columns
        THEN Cardinality({ ReplaceEmpty(file.rows[i])[col] : i \in 1..Len(file.rows) })
        ELSE Len(file.rows)

\* C8: for every completed import by server.py, imported + skipped is the number
\* of rows remaining after in-file dedup.
ImportedPlusSkipped ==
    resp.op = "import_contacts" => resp.imported + resp.skipped = RemainingRows

\* an import that inserted a row and skipped another as a database duplicate
ImportMixedOutcome ==
    /\ resp.op = "import_contacts"
    /\ resp.imported > 0
    /\ resp.db_duplicates > 0

\* C9: a second run by server.py of the same import, the store unchanged in
\* between, reports imported = 0 and inserts no contact.
SecondImportAddsNothing ==
    \A i \in 2..Len(runs) :
        (runs[i - 1].impl = "server" /\ runs[i].impl = "server")
            => (runs[i].resp.imported = 0 /\ runs[i].after = runs[i].before)

\* the same sheet was imported twice in a row by server.py and the first run
\* inserted a row with a generated phone
ImportedTwice ==
    /\ Len(runs) >= 2
    /\ runs[1].impl = "server" /\ runs[2].impl = "server"
    /\ runs[1].resp.imported > 0
    /\ \E i \in 1..Len(runs[1].after) :
           /\ runs[1].after[i].phone \notin {Strip(c) : c \in PhoneCells}
           /\ \A j \in 1..Len(runs[1].before) : runs[1].before[j] # runs[1].after[i]

\* C10: a second run by clean_import_function.py or clean_import.py of the same
\* import, the store unchanged in between, reports imported = 0 and inserts no
\* contact.
AltSecondImportAddsNothing ==
    \A i \in 2..Len(runs) :
        (runs[i - 1].impl = runs[i].impl /\ runs[i].impl \in {"clean_function", "clean"})
            => (runs[i].resp.imported = 0 /\ runs[i].after = runs[i].before)

\* C11: in import_contacts of server.py, the phone generated for a row whose
\* phone is absent or blank is determined by the row's shop_name and its
\* 1-based processing number alone, whatever the store holds, and no two rows
\* of one import are given the same generated phone.
SynthesizedPhoneDeterministic ==
    \A i, j \in 1..Len(runs) :
        (runs[i].impl = "server" /\ runs[j].impl = "server") =>
            \A a \in 1..Len(runs[i].generated), b \in 1..Len(runs[j].generated) :
                LET x == runs[i].generated[a]
                    y == runs[j].generated[b]
                IN  /\ (x.shop_name = y.shop_name /\ x.seq = y.seq) => x.phone = y.phone
                    /\ (i = j /\ a # b) => x.phone # y.phone

\* the same sheet was imported by server.py into two different stores, and two
\* of its rows with the same shop name were given generated phones
SynthesizedOverTwoStores ==
    /\ Len(runs) >= 2
    /\ runs[1].impl = "server" /\ runs[2].impl = "server"
    /\ runs[1].before # runs[2].before
    /\ \E a, b \in 1..Len(runs[2].generated) :
           /\ a # b
           /\ runs[2].generated[a].shop_name = runs[2].generated[b].shop_name
           /\ runs[2].generated[a].shop_name # None

\* the absent-value set: a cell is absent when its trimmed, case-folded value
\* is one of these
AbsentValues ==
    { <<>>, <<"n", "/", "a">>, <<"n", "a">>, <<"n", "u", "l", "l">>,
      <<"n", "o", "n", "e">> }

\* C12: no contact stored by import_contacts carries an attribute, phone2
\* included, or a customer_name whose trimmed, case-folded value is in the
\* absent-value set: such cells are omitted.
AbsentValuesOmitted ==
    \A i \in 1..Len(contacts) :
        /\ \A f \in DOMAIN contacts[i].data :
               Lower(Strip(contacts[i].data[f])) \notin AbsentValues
        /\ contacts[i].customer_name # None
               => Lower(Strip(contacts[i].customer_name)) \notin AbsentValues

\* the rows of the sheet whose Phone cell is blank
BlankPhoneRows == {i \in 1..Len(file.rows) : Strip(file.rows[i]["Phone"]) = <<>>}

\* the contacts an import inserted
Inserted(run) ==
    {run.after[i] : i \in 1..Len(run.after)} \ {run.before[i] : i \in 1..Len(run.before)}

\* C13 as stated: importing a scenario sheet into an empty store reports
\* imported = 3 and stores the blank-phone row, whose Name is "Ace Shop",
\* under a phone of the form Ace_Shop_<n>.
ScenarioStoredAsAceShop ==
    \A r \in 1..Len(runs) :
        runs[r].before = <<>> =>
            /\ runs[r].resp.imported = 3
            /\ \E c \in Inserted(runs[r]), n \in 1..3 :
                   /\ c.customer_name = AceShop
                   /\ c.phone = <<"A", "c", "e", "_", "S", "h", "o", "p", "_">> \o Str(n)

\* C13 amended: importing a scenario sheet into an empty store reports
\* imported = 3 and stores the blank-phone row, whose Name is "Ace Shop",
\* under the phone contact_<n>, n its 1-based row number: Name is mapped to
\* customer_name, and no shop_name attribute exists to build the phone from.
ScenarioStoredAsContactN ==
    \A r \in 1..Len(runs) :
        runs[r].before = <<>> =>
            /\ runs[r].resp.imported = 3
            /\ \A k \in BlankPhoneRows :
                   \E c \in Inserted(runs[r]) :
                       /\ c.customer_name = AceShop
                       /\ c.data = ("email" :> file.rows[k]["Email"])
                       /\ c.phone = <<"c", "o", "n", "t", "a", "c", "t", "_">> \o Str(k)

\* a scenario sheet whose blank-phone row is not the first was imported into
\* an empty store
ScenarioImported ==
    /\ Len(runs) >= 1
    /\ runs[1].before = <<>>
    /\ Len(runs[1].after) = 3
    /\ 1 \notin BlankPhoneRows
    /\ BlankPhoneRows # {}

\* C14: an import in which the store fails at one row does not raise: it
\* answers 200 with its counters, the failed row counted like a skipped one
\* and the remaining rows processed.
RowFailureCounted ==
    [][ ImportRowErrorAny
        => (/\ resp'.code = 200
            /\ resp'.imported + resp'.skipped = RemainingRows) ]_vars

----------------------------------------------------------------------------
(* Follow-ups and the alert sweep: claims *)

ListingOps ==
    {"get_followups", "get_upcoming_followups", "get_followups_by_date",
     "get_paginated_followups"}

Fetched(r) == {r.fetched[i] : i \in 1..Len(r.fetched)}

\* C3: with sweeps run one after another among listing, create and complete
\* requests, a notification is only ever dispatched for a follow-up not yet
\* marked notified, and it is then the only one dispatched for that follow-up.
AlertedOnce ==
    [][ \A i \in 1..Len(followups) :
            Dispatches(dispatched', followups[i].id) > Dispatches(dispatched, followups[i].id)
                => (/\ ~followups[i].notified
                    /\ Dispatches(dispatched', followups[i].id) = 1) ]_vars

\* a sweep has just passed over a follow-up that is pending, due and already
\* notified, and selected nothing
SweepSkipsNotified ==
    /\ resp.op = "check_followup_alerts"
    /\ resp.selected = <<>>
    /\ \E i \in 1..Len(followups) :
           /\ followups[i].notified
           /\ followups[i].status = "pending"
           /\ followups[i].follow_up_date <= now + AlertWindow
           /\ Dispatches(dispatched, followups[i].id) = 1

\* C4: when two executions of the sweep interleave at their store reads, sends
\* and store writes, no follow-up has a notification dispatched more than once.
OverlapAlertedOnce ==
    \A i \in 1..Len(followups) : Dispatches(dispatched, followups[i].id) <= 1

\* C5: every follow-up created pending whose contact exists and which is never
\* completed is eventually dispatched a notification, and none is dispatched
\* twice, whatever listing requests come between the sweeps.
EveryReminderDispatchedOnce ==
    /\ \A k \in 1..MaxFollowups :
           (Len(followups) >= k /\ HasContact(contacts, followups[k]))
               ~> (/\ Len(followups) >= k
                   /\ \/ Dispatches(dispatched, followups[k].id) >= 1
                      \/ followups[k].status = "completed"
                      \/ ~HasContact(contacts, followups[k]))
    /\ [](\A i \in 1..Len(followups) : Dispatches(dispatched, followups[i].id) < 2)

\* C6: a pending follow-up whose date is in the past is overdue in the store
\* after any of the four listing endpoints has fetched it.
PastDueRetaggedOnFetch ==
    [][ resp'.op \in ListingOps
        => \A i \in 1..Len(followups) :
               (/\ followups[i].id \in Fetched(resp')
                /\ followups[i].status = "pending"
                /\ followups[i].follow_up_date < now)
                   => followups'[i].status = "overdue" ]_vars

\* C7: every status is pending, overdue or completed; requests run one at a
\* time change a status only from pending to overdue, in a listing read after
\* the date has passed, or from pending or overdue to completed, in
\* complete_followup; the sweep changes notified and nothing else.
StatusMachine ==
    /\ [](\A i \in 1..Len(followups) :
              followups[i].status \in {"pending", "overdue", "completed"})
    /\ [][ \A i \in 1..Len(followups) :
               /\ followups'[i].status # followups[i].status
                      => \/ /\ followups[i].status = "pending"
                            /\ followups'[i].status = "overdue"
                            /\ resp'.op \in ListingOps
                            /\ followups[i].follow_up_date < now
                         \/ /\ followups[i].status \in {"pending", "overdue"}
                            /\ followups'[i].status = "completed"
                            /\ resp'.op = "complete_followup"
               /\ resp'.op = "check_followup_alerts"
                      => followups'[i] = [followups[i] EXCEPT
                                             !.notified = followups'[i].notified] ]_vars

\* a follow-up past its date that the sweep has alerted and that
\* complete_followup has just completed
AlertedThenCompleted ==
    /\ resp.op = "complete_followup"
    /\ resp.code = 200
    /\ \E i \in 1..Len(followups) :
           /\ followups[i].id = resp.id
           /\ followups[i].status = "completed"
           /\ followups[i].notified
           /\ followups[i].follow_up_date < now

----------------------------------------------------------------------------
(* Absent entities: claims *)

\* the routes that name a contact by id
ContactIdOps == {"get_contact", "update_contact", "delete_contact", "log_call", "create_demo"}

\* a step that answers 404 and writes to no collection
RejectedUnchanged ==
    /\ resp'.code = 404
    /\ UNCHANGED <<stepVars, contacts, followups, notes, meetings, demos, activity_logs, dispatched>>

\* C20: get_contact, update_contact, delete_contact, log_call and create_demo
\* with a contact id that is not in the store, complete_followup with an
\* unknown follow-up id and mark_demo_watched with an unknown demo id answer
\* 404 and change no collection, the activity log included.
AbsentEntityRejected ==
    [][ /\ (resp'.op \in ContactIdOps /\ FindById(contacts, resp'.id) = 0)
            => RejectedUnchanged
        /\ (resp'.op = "complete_followup" /\ FindById(followups, resp'.id) = 0)
            => RejectedUnchanged
        /\ (resp'.op = "mark_demo_watched" /\ FindById(demos, resp'.id) = 0)
            => RejectedUnchanged ]_vars

\* create_demo has just been refused for a contact id that is not in the
\* store, which holds a contact and a log entry
DemoForAbsentContactRefused ==
    /\ resp.op = "create_demo"
    /\ resp.code = 404
    /\ FindById(contacts, resp.id) = 0
    /\ Len(contacts) > 0
    /\ Len(activity_logs) > 0

----------------------------------------------------------------------------
(* The activity log: claims *)

\* the routes that change notes, follow-ups, meetings or demos
SatelliteOps ==
    {"create_note", "create_followup", "complete_followup", "create_meeting",
     "update_meeting", "update_meeting_status", "delete_meeting", "create_demo",
     "mark_demo_watched"}

\* C16: every request of these routes that succeeds appends exactly one
\* entry to the activity log, whether or not the related contact is in the
\* store.
EveryMutationLogged ==
    [][ (resp'.op \in SatelliteOps /\ resp'.code = 200)
        => (/\ Len(activity_logs') = Len(activity_logs) + 1
            /\ SubSeq(activity_logs', 1, Len(activity_logs)) = activity_logs) ]_vars

----------------------------------------------------------------------------
(* Meetings: claims *)

\* C17: in every reachable state each meeting's status is scheduled,
\* completed or cancelled, whatever the bodies of the create_meeting,
\* update_meeting, update_meeting_status and delete_meeting requests.
MeetingStatusValid ==
    \A i \in 1..Len(meetings) : meetings[i].status \in {"scheduled", "completed", "cancelled"}

\* the routes that address one meeting by id
OneMeetingOps == {"get_meeting", "update_meeting", "update_meeting_status", "delete_meeting"}

\* the meeting a request names is in the store and belongs to another user
OwnedByAnother(r) ==
    \E i \in 1..Len(meetings) : meetings[i].id = r.id /\ meetings[i].user_id # r.user

\* C18 as stated: get_meetings returns only the caller's meetings, and
\* get_meeting, update_meeting, update_meeting_status and delete_meeting on a
\* meeting of another user answer 404 and leave the meetings and the activity
\* log unchanged.
ForeignMeetingNotFound ==
    [][ /\ resp'.op = "get_meetings"
            => \A i \in 1..Len(resp'.meetings) : resp'.meetings[i].user_id = resp'.user
        /\ (resp'.op \in OneMeetingOps /\ OwnedByAnother(resp'))
            => (/\ resp'.code = 404
                /\ meetings' = meetings
                /\ activity_logs' = activity_logs) ]_vars

\* C18 amended: the same, except that update_meeting_status with a status
\* other than scheduled, completed or cancelled answers 400 instead of 404;
\* the meetings and the activity log are unchanged in either case.
ForeignMeetingRejected ==
    [][ /\ resp'.op = "get_meetings"
            => \A i \in 1..Len(resp'.meetings) : resp'.meetings[i].user_id = resp'.user
        /\ (resp'.op \in OneMeetingOps /\ OwnedByAnother(resp'))
            => (/\ resp'.code =
                       IF /\ resp'.op = "update_meeting_status"
                          /\ resp'.status \notin {"scheduled", "completed", "cancelled"}
                       THEN 400 ELSE 404
                /\ meetings' = meetings
                /\ activity_logs' = activity_logs) ]_vars

\* a user has just been refused the update of another user's meeting
ForeignUpdateRefused ==
    /\ resp.op = "update_meeting"
    /\ resp.code = 404
    /\ OwnedByAnother(resp)

----------------------------------------------------------------------------
(* Demos: claims *)

\* C19: mark_demo_watched without a watched_at, on a demo that is already
\* watched, leaves it watched and does not change its stored watched_at.
WatchedAtSetOnce ==
    [][ (/\ resp'.op = "mark_demo_watched"
         /\ resp'.code = 200
         /\ resp'.supplied = NoTime)
        => \A i \in 1..Len(demos) :
               (demos[i].id = resp'.id /\ demos[i].watched)
                   => (/\ demos'[i].watched
                       /\ demos'[i].watched_at = demos[i].watched_at) ]_vars

----------------------------------------------------------------------------
(* Listings by date: unknown filters *)

\* date_filter values that are none of today, tomorrow, this_week, all
UnknownFilters == {"yesterday"}

GetFollowupsByDateUnknown == \E f \in UnknownFilters : get_followups_by_date(f)

GetPaginatedFollowupsUnknown ==
    \E pg \in Pages, f \in UnknownFilters : get_paginated_followups(pg.skip, pg.limit, f)

\* listings by date whose date_filter is not one of the documented values
NextFilters ==
    \/ CreateOneContact
    \/ CreateFollowupAny
    \/ GetFollowupsByDateUnknown
    \/ GetPaginatedFollowupsUnknown
    \/ Tick

SpecFilters == InitFollowups /\ [][NextFilters]_vars

\* C21: get_followups_by_date and get_paginated_followups answer a
\* date_filter outside {today, tomorrow, this_week, all} with a client error
\* and change no stored follow-up.
UnknownFilterRejected ==
    [][ (GetFollowupsByDateUnknown \/ GetPaginatedFollowupsUnknown)
        => (/\ resp'.code \in 400..499
            /\ followups' = followups) ]_vars

----------------------------------------------------------------------------
(* Listings: follow-ups whose contact is absent *)

\* C22: every pending or overdue follow-up that a listing (upcoming, by-date,
\* paginated) fetched for its date window and page, and whose contact_id
\* matches no stored contact, is in the list the listing returns.
AbsentContactListed ==
    [][ resp'.op \in {"get_upcoming_followups", "get_followups_by_date",
                      "get_paginated_followups"}
        => \A i \in 1..Len(followups) :
               (/\ followups[i].id \in Fetched(resp')
                /\ ~HasContact(contacts, followups[i]))
                   => LET listed == IF resp'.op = "get_upcoming_followups"
                                    THEN resp'.overdue \o resp'.upcoming
                                    ELSE resp'.followups
                      IN  \E k \in 1..Len(listed) :
                              listed[k].id = followups[i].id ]_vars

----------------------------------------------------------------------------
(* Contacts: requests that interleave at their awaits *)

\* POST /contacts up to its first await: find_one({"phone": ...}) and the 400
create_contact_find(p, phone) ==
    /\ inflight[p] = Idle
    /\ IF PhoneExists(contacts, phone)
       THEN /\ resp' = [op |-> "create_contact", proc |-> p, phone |-> phone, code |-> 400]
            /\ UNCHANGED inflight
       ELSE /\ resp' = [op |-> "create_contact_find", proc |-> p, phone |-> phone]
            /\ inflight' = [inflight EXCEPT ![p] = [pc |-> "insert", phone |-> phone]]
    /\ UNCHANGED <<undelivered, satelliteVars, followVars, importVars, contacts,
                   activity_logs, nextId, now>>

\* POST /contacts: "await db.contacts.insert_one(contact.model_dump())"
create_contact_insert(p) ==
    /\ inflight[p].pc = "insert"
    /\ Len(contacts) < MaxContacts
    /\ contacts' = InsertOne(contacts,
                             Contact(nextId, inflight[p].phone, None, sNone, ShopA, now))
    /\ nextId' = nextId + 1
    /\ resp' = [op |-> "create_contact_insert", proc |-> p, phone |-> inflight[p].phone]
    /\ inflight' = [inflight EXCEPT ![p] = [pc |-> "log", phone |-> inflight[p].phone]]
    /\ UNCHANGED <<undelivered, satelliteVars, followVars, importVars, activity_logs, now>>

\* POST /contacts: "await log_activity(...)" and the response
create_contact_log(p) ==
    /\ inflight[p].pc = "log"
    /\ Len(activity_logs) < MaxLog
    /\ activity_logs' = LogActivity(activity_logs, "Created contact", inflight[p].phone)
    /\ resp' = [op |-> "create_contact", proc |-> p, phone |-> inflight[p].phone,
                code |-> 200]
    /\ inflight' = [inflight EXCEPT ![p] = Idle]
    /\ UNCHANGED <<undelivered, satelliteVars, followVars, importVars, contacts, nextId, now>>

\* POST /contacts/import up to its loop: the sheet is read and its duplicate
\* rows are dropped
import_contacts_read(p) ==
    /\ inflight[p] = Idle
    /\ inflight' = [inflight EXCEPT ![p] =
                       [pc |-> "row_find", rows |-> RowsAfterDedup(file, mapping),
                        i |-> 1, st |-> ImportStart(<<>>, 0)]]
    /\ resp' = [op |-> "import_contacts_read", proc |-> p]
    /\ UNCHANGED <<undelivered, satelliteVars, followVars, importVars, contacts,
                   activity_logs, nextId, now>>

\* one iteration of the loop up to "existing = await db.contacts.find_one(...)"
\* and the two "continue"
import_row_find(p) ==
    /\ inflight[p].pc = "row_find"
    /\ inflight[p].i <= Len(inflight[p].rows)
    /\ LET q == inflight[p]
           r == ImportRowServer(q.rows[q.i], file.columns, mapping,
                                [q.st EXCEPT !.contacts = contacts, !.nextId = nextId], now)
           counted == [r EXCEPT !.contacts = <<>>, !.nextId = 0]
       IN  IF r.imported = q.st.imported
           THEN /\ inflight' = [inflight EXCEPT ![p].st = counted, ![p].i = q.i + 1]
                /\ resp' = [op |-> "import_row_find", proc |-> p, existing |-> TRUE]
           ELSE /\ inflight' = [inflight EXCEPT ![p] =
                                   [pc |-> "row_insert", rows |-> q.rows, i |-> q.i,
                                    st |-> counted, doc |-> r.contacts[Len(r.contacts)]]]
                /\ resp' = [op |-> "import_row_find", proc |-> p, existing |-> FALSE]
    /\ UNCHANGED <<undelivered, satelliteVars, followVars, importVars, contacts,
                   activity_logs, nextId, now>>

\* the iteration's "await db.contacts.insert_one(contact.model_dump())"
import_row_insert(p) ==
    /\ inflight[p].pc = "row_insert"
    /\ Len(contacts) < MaxContacts
    /\ LET q == inflight[p]
       IN  /\ contacts' = InsertOne(contacts, [q.doc EXCEPT !.id = nextId])
           /\ inflight' = [inflight EXCEPT ![p] =
                              [pc |-> "row_find", rows |-> q.rows, i |-> q.i + 1,
                               st |-> q.st]]
           /\ resp' = [op |-> "import_row_insert", proc |-> p, phone |-> q.doc.phone]
    /\ nextId' = nextId + 1
    /\ UNCHANGED <<undelivered, satelliteVars, followVars, importVars, activity_logs, now>>

\* after the loop: "await log_activity(...)" and the response
import_contacts_log(p) ==
    /\ inflight[p].pc = "row_find"
    /\ inflight[p].i > Len(inflight[p].rows)
    /\ Len(activity_logs) < MaxLog
    /\ activity_logs' = LogActivity(activity_logs, "Imported contacts", NoTarget)
    /\ resp' = ImportServerResponse(file, mapping, inflight[p].st) @@ [proc |-> p]
    /\ inflight' = [inflight EXCEPT ![p] = Idle]
    /\ UNCHANGED <<undelivered, satelliteVars, followVars, importVars, contacts, nextId, now>>

CreateContactFindAny == \E p \in RequestProcs : create_contact_find(p, <<"1">>)
CreateContactInsertAny == \E p \in RequestProcs : create_contact_insert(p)
CreateContactLogAny == \E p \in RequestProcs : create_contact_log(p)
ImportContactsReadAny == \E p \in RequestProcs : import_contacts_read(p)
ImportRowFindAny == \E p \in RequestProcs : import_row_find(p)
ImportRowInsertAny == \E p \in RequestProcs : import_row_insert(p)
ImportContactsLogAny == \E p \in RequestProcs : import_contacts_log(p)

\* two requests, each a creation or an import, that interleave at their awaits
NextRace ==
    \/ CreateContactFindAny
    \/ CreateContactInsertAny
    \/ CreateContactLogAny
    \/ ImportContactsReadAny
    \/ ImportRowFindAny
    \/ ImportRowInsertAny
    \/ ImportContactsLogAny

SpecRace == InitContacts /\ [][NextRace]_vars

\* C23: the insert of a creation or of an import row stores its contact
\* whatever the store holds by then, so two requests that both looked the phone
\* up before either inserted both succeed and leave two contacts with it.
InsertUnchecked ==
    [][ resp'.op \in {"create_contact_insert", "import_row_insert"}
        => (/\ Len(contacts') = Len(contacts) + 1
            /\ contacts'[Len(contacts')].phone = resp'.phone) ]_vars

\* two creations of one phone have both succeeded and both contacts are stored
RacedDuplicate ==
    /\ \E i, j \in 1..Len(contacts) : i < j /\ contacts[i].phone = contacts[j].phone
    /\ Cardinality({k \in 1..Len(activity_logs) :
                       /\ activity_logs[k].action = "Created contact"
                       /\ activity_logs[k].target = <<"1">>}) = 2
    /\ resp.op = "create_contact"
    /\ resp.code = 200

\* a creation and an import row of one phone have both succeeded
RacedImportDuplicate ==
    /\ \E i, j \in 1..Len(contacts) : i < j /\ contacts[i].phone = contacts[j].phone
    /\ \E k \in 1..Len(activity_logs) : activity_logs[k].action = "Created contact"
    /\ resp.op = "import_contacts"
    /\ resp.imported = 1
    /\ Len(contacts) = 2

----------------------------------------------------------------------------
(* The alert sweep: notifications that fail to send *)

\* send_email_notification: "except Exception as e: logging.error(...)", so a
\* failed send raises nothing to the sweep
SendRaisesOnFailure(delivered) == ~delivered
SendRaises(delivered) == FALSE

\* the loop of the sweep when the sends of the follow-ups in failing fail; an
\* exception raised in the loop would reach the "except Exception" of the sweep
\* and end it
RECURSIVE AlertLoopSending(_, _, _, _, _)
AlertLoopSending(todo, store, docs, sent, failing) ==
    IF todo = <<>> THEN [followups |-> docs, sent |-> sent]
    ELSE IF ~HasContact(store, Head(todo))
    THEN AlertLoopSending(Tail(todo), store, docs, sent, failing)
    ELSE IF SendRaises(Head(todo).id \notin failing)
    THEN [followups |-> docs, sent |-> Append(sent, Head(todo).id)]
    ELSE AlertLoopSending(Tail(todo), store, SetNotified(docs, Head(todo).id),
                          Append(sent, Head(todo).id), failing)

\* check_followup_alerts, run without interruption, the sends of the
\* follow-ups in failing failing
check_followup_alerts_sending(failing) ==
    /\ LET todo == SelectSeq(followups, LAMBDA d : DueForAlert(d, now))
           done == AlertLoopSending(todo, contacts, followups, <<>>, failing)
           failed == {id \in failing : \E k \in 1..Len(done.sent) : done.sent[k] = id}
       IN  /\ followups' = done.followups
           /\ dispatched' = dispatched \o done.sent
           /\ undelivered' = undelivered \cup failed
           /\ resp' = [op |-> "check_followup_alerts", selected |-> Ids(todo),
                       sent |-> done.sent, failed |-> failed]
    /\ UNCHANGED <<inflight, satelliteVars, contacts, activity_logs, nextId, now, sweep,
                   importVars>>

CheckFollowupAlertsSendingAny ==
    \E failing \in SUBSET {followups[i].id : i \in 1..Len(followups)} :
        check_followup_alerts_sending(failing)

\* sweeps one after another, some of whose notifications fail to send
NextSendFailure ==
    \/ CreateOneContact
    \/ CreateFollowupAny
    \/ CheckFollowupAlertsSendingAny
    \/ Tick

SpecSendFailure == InitFollowups /\ [][NextSendFailure]_vars

----------------------------------------------------------------------------
(* Import: rows without attributes *)

\* sheets of one row with a phone, whose second phone, status and shop name
\* are each a value or absent
StatusColumns == {"Phone", "Phone2", "Status", "Shop"}
StatusSheets ==
    { [columns |-> StatusColumns,
       rows |-> << [c \in StatusColumns |->
                      CASE c = "Phone" -> <<"1">>
                        [] c = "Phone2" -> p2
                        [] c = "Status" -> st
                        [] OTHER -> s] >>] :
          p2 \in FieldCells, st \in FieldCells, s \in FieldCells }

InitStatus ==
    /\ InitStore
    /\ file \in StatusSheets
    /\ mapping = ("phone" :> "Phone") @@ ("phone2" :> "Phone2")
                     @@ ("status" :> "Status") @@ ("shop_name" :> "Shop")

\* imports by backend/server.py of a sheet with a status and a second phone
NextStatus == import_contacts

SpecStatus == InitStatus /\ [][NextStatus]_vars

\* C25: an import into an empty store of a one-row sheet whose row has no
\* attribute among the mapped fields other than phone, phone2, customer_name
\* and status inserts nothing and reports empty_data_skipped = 1; and every
\* contact an import inserts has a non-empty data.
EmptyAttributesRejected ==
    \A r \in 1..Len(runs) :
        /\ (/\ runs[r].before = <<>>
            /\ DOMAIN BuildContactData(file.rows[1], file.columns, mapping,
                                       {"phone", "phone2", "customer_name", "status"}) = {})
               => (/\ runs[r].resp.imported = 0
                   /\ runs[r].resp.empty_data_skipped = 1)
        /\ \A c \in Inserted(runs[r]) : DOMAIN c.data # {}

----------------------------------------------------------------------------
(* Follow-ups: listings and completions that interleave at their awaits *)

\* the follow-ups of a listing that its loop re-tags: "follow_up_date < now"
\* and "status != 'overdue'", both read from the documents the find returned
Retagged(doc, t) == PastDue(doc, t) /\ doc.status # "overdue"

\* GET /followups/upcoming up to its loop: "followups = await db.followups.find(...)"
upcoming_find(p) ==
    /\ inflight[p] = Idle
    /\ inflight' = [inflight EXCEPT ![p] =
                       [pc |-> "retag", t |-> now,
                        todo |-> SortByDate(SelectSeq(followups, Open))]]
    /\ resp' = [op |-> "upcoming_find", proc |-> p]
    /\ UNCHANGED <<undelivered, satelliteVars, followVars, importVars, contacts,
                   activity_logs, nextId, now>>

\* GET /followups/paginated up to its loop
paginated_find(p, skip, limit, date_filter) ==
    /\ inflight[p] = Idle
    /\ inflight' = [inflight EXCEPT ![p] =
                       [pc |-> "retag", t |-> now,
                        todo |-> Page(SortByDate(SelectSeq(followups,
                                     LAMBDA d : Open(d) /\ InDateFilter(d, date_filter, now))),
                                      skip, limit)]]
    /\ resp' = [op |-> "paginated_find", proc |-> p]
    /\ UNCHANGED <<undelivered, satelliteVars, followVars, importVars, contacts,
                   activity_logs, nextId, now>>

\* one iteration of the loop of either listing: the update_one that re-tags
\* the follow-up as overdue, if the document read earlier asks for it
listing_retag(p) ==
    /\ inflight[p].pc = "retag"
    /\ inflight[p].todo # <<>>
    /\ LET doc == Head(inflight[p].todo)
       IN  /\ followups' = IF Retagged(doc, inflight[p].t)
                           THEN SetStatus(followups, {doc.id}, "overdue")
                           ELSE followups
           /\ resp' = [op |-> "listing_retag", proc |-> p, id |-> doc.id,
                       retagged |-> Retagged(doc, inflight[p].t)]
    /\ inflight' = [inflight EXCEPT ![p].todo = Tail(@)]
    /\ UNCHANGED <<undelivered, satelliteVars, importVars, contacts, activity_logs, nextId,
                   now, dispatched, sweep>>

\* the return of either listing
listing_return(p) ==
    /\ inflight[p].pc = "retag"
    /\ inflight[p].todo = <<>>
    /\ inflight' = [inflight EXCEPT ![p] = Idle]
    /\ resp' = [op |-> "listing_return", proc |-> p, code |-> 200]
    /\ UNCHANGED <<undelivered, satelliteVars, followVars, importVars, contacts,
                   activity_logs, nextId, now>>

\* PUT /followups/{followup_id}/complete up to its update: find_one and the 404
complete_find(p, followup_id) ==
    /\ inflight[p] = Idle
    /\ IF FindById(followups, followup_id) = 0
       THEN /\ resp' = [op |-> "complete_followup", id |-> followup_id, code |-> 404]
            /\ UNCHANGED inflight
       ELSE /\ resp' = [op |-> "complete_find", proc |-> p, id |-> followup_id]
            /\ inflight' = [inflight EXCEPT ![p] = [pc |-> "complete", id |-> followup_id]]
    /\ UNCHANGED <<undelivered, satelliteVars, followVars, importVars, contacts,
                   activity_logs, nextId, now>>

\* update_one({"id": followup_id}, {"$set": {"status": "completed"}})
complete_update(p) ==
    /\ inflight[p].pc = "complete"
    /\ followups' = SetStatus(followups, {inflight[p].id}, "completed")
    /\ resp' = [op |-> "complete_update", proc |-> p, id |-> inflight[p].id]
    /\ inflight' = [inflight EXCEPT ![p].pc = "log"]
    /\ UNCHANGED <<undelivered, satelliteVars, importVars, contacts, activity_logs, nextId,
                   now, dispatched, sweep>>

\* "await log_activity(...)" and the response
complete_log(p) ==
    /\ inflight[p].pc = "log"
    /\ Len(activity_logs) < MaxLog
    /\ LET i == FindById(followups, inflight[p].id)
       IN  activity_logs' = LogActivity(activity_logs, "Completed follow-up",
                                        TargetOf(contacts, followups[i].contact_id))
    /\ resp' = [op |-> "complete_followup", id |-> inflight[p].id, code |-> 200]
    /\ inflight' = [inflight EXCEPT ![p] = Idle]
    /\ UNCHANGED <<undelivered, satelliteVars, followVars, importVars, contacts, nextId, now>>

\* two requests, each a listing or a completion, that interleave at their awaits
NextListingRace ==
    \/ CreateFollowupAny
    \/ \E p \in RequestProcs : upcoming_find(p)
    \/ \E p \in RequestProcs : paginated_find(p, 0, UpcomingCap, "all")
    \/ \E p \in RequestProcs : listing_retag(p)
    \/ \E p \in RequestProcs : listing_return(p)
    \/ \E p \in RequestProcs, id \in 1..nextId : complete_find(p, id)
    \/ \E p \in RequestProcs : complete_update(p)
    \/ \E p \in RequestProcs : complete_log(p)
    \/ Tick

SpecListingRace == InitFollowups /\ [][NextListingRace]_vars

\* C26: whatever the interleaving of completions with upcoming and paginated
\* listings, a follow-up stored as completed is stored as completed ever after.
CompletedStays ==
    [][ \A i \in 1..Len(followups) :
            followups[i].status = "completed" => followups'[i].status = "completed" ]_vars

----------------------------------------------------------------------------
(* Import: the counters of the response *)

\* the rows an import iterates over that carry a phone already stored before
\* the import (db) and those that carry no attribute (empty)
StoredPhoneRows(run) ==
    LET rows == RowsAfterDedup(file, mapping)
        col == MappingGet(mapping, "phone")
    IN  IF ~ColumnPresent(col, file.columns) THEN {}
        ELSE {i \in 1..Len(rows) :
                 /\ rows[i][col] # NA
                 /\ FindByPhone(run.before, Strip(rows[i][col])) # 0}

NoAttributeRows ==
    LET rows == RowsAfterDedup(file, mapping)
    IN  {i \in 1..Len(rows) :
            DOMAIN BuildContactData(rows[i], file.columns, mapping,
                                    {"phone", "phone2", "customer_name"}) = {}}

\* C27: the counters of every completed import by server.py satisfy
\* skipped = db_duplicates + empty_data_skipped, total_processed = imported +
\* skipped and original_excel_rows = file_duplicates_removed + total_processed;
\* the rows whose phone was stored before the import are all among the
\* database duplicates and none of them among the empty rows.
CountersAddUp ==
    \A r \in 1..Len(runs) :
        runs[r].impl = "server" =>
            LET c == runs[r].resp
            IN  /\ c.skipped = c.db_duplicates + c.empty_data_skipped
                /\ c.total_processed = c.imported + c.skipped
                /\ c.original_excel_rows = c.file_duplicates_removed + c.total_processed
                /\ c.db_duplicates >= Cardinality(StoredPhoneRows(runs[r]))
                /\ c.empty_data_skipped
                       <= Cardinality(NoAttributeRows \ StoredPhoneRows(runs[r]))

\* an import counted a row with a stored phone and no attribute as a database
\* duplicate, and another row as empty
DuplicateAndEmptyCounted ==
    /\ resp.op = "import_contacts"
    /\ runs # <<>>
    /\ StoredPhoneRows(runs[Len(runs)]) \cap NoAttributeRows # {}
    /\ resp.db_duplicates = 1
    /\ resp.empty_data_skipped = 1

----------------------------------------------------------------------------
(* Import: rows without a phone *)

\* sheets of up to MaxRows rows whose Phone is empty, blank or a number
BlankPhoneCells == { <<>>, <<" ", " ">>, <<"1">> }
BlankPhoneSheets ==
    { [columns |-> SheetColumns, rows |-> r] :
        r \in UNION { [1..n -> { [c \in SheetColumns |-> IF c = "Phone" THEN p ELSE s] :
                                    p \in BlankPhoneCells, s \in { <<"A">>, <<"B">> } }] :
                      n \in 0..MaxRows } }

InitBlankPhones ==
    /\ InitStore
    /\ file \in BlankPhoneSheets
    /\ mapping = ("phone" :> "Phone") @@ ("shop_name" :> "Shop")

\* imports by backend/server.py of a sheet with empty and blank phones
NextBlankPhones == import_contacts

SpecBlankPhones == InitBlankPhones /\ [][NextBlankPhones]_vars

\* C28: with the phone column designated and present, every import counts
\* all the rows whose phone is blank but the first in file_duplicates_removed,
\* and generates a phone for at most one row.
BlankPhonesDeduplicated ==
    \A r \in 1..Len(runs) :
        /\ BlankPhoneRows # {}
               => runs[r].resp.file_duplicates_removed >= Cardinality(BlankPhoneRows) - 1
        /\ Len(runs[r].generated) <= 1

----------------------------------------------------------------------------
(* Import: the contacts stored before it *)

\* C29: every import by server.py leaves the contacts stored before it as
\* they were and adds the contacts it reports as imported after them, none
\* under a phone stored before; the rows whose phone was stored before the
\* import are counted as database duplicates.
ImportKeepsExisting ==
    \A r \in 1..Len(runs) :
        runs[r].impl = "server" =>
            LET before == runs[r].before
                after == runs[r].after
            IN  /\ Len(after) = Len(before) + runs[r].resp.imported
                /\ SubSeq(after, 1, Len(before)) = before
                /\ \A i \in (Len(before) + 1)..Len(after) :
                       FindByPhone(before, after[i].phone) = 0
                /\ runs[r].resp.db_duplicates >= Cardinality(StoredPhoneRows(runs[r]))

\* an import into a store that held the phone of one of its rows has inserted
\* another row
ImportedBesideExisting ==
    /\ resp.op = "import_contacts"
    /\ runs # <<>>
    /\ runs[Len(runs)].before # <<>>
    /\ StoredPhoneRows(runs[Len(runs)]) # {}
    /\ Len(runs[Len(runs)].after) > Len(runs[Len(runs)].before)

----------------------------------------------------------------------------
(* Demos: who may mark a demo watched *)

\* C30: mark_demo_watched by a user other than the one who created the demo
\* answers 403 and leaves the demos and the activity log unchanged; and no
\* step makes a watched demo unwatched.
OnlyCreatorMarksWatched ==
    [][ /\ \A i \in 1..Len(demos) :
               (/\ resp'.op = "mark_demo_watched"
                /\ resp'.code # 404
                /\ resp'.id = demos[i].id
                /\ resp'.user # demos[i].user_id)
                   => (/\ resp'.code = 403
                       /\ demos' = demos
                       /\ activity_logs' = activity_logs)
        /\ \A i \in 1..Len(demos) :
               demos[i].watched => (Len(demos') >= i /\ demos'[i].watched) ]_vars

\* a user has just been refused the marking of a demo another user created
\* and that is not watched yet
NonCreatorRefused ==
    /\ resp.op = "mark_demo_watched"
    /\ resp.code = 403
    /\ \E i \in 1..Len(demos) :
           /\ demos[i].id = resp.id
           /\ demos[i].user_id # resp.user
           /\ ~demos[i].watched

====
